---- MODULE Spec2Model ----
(***************************************************************************)
(* Supabase integration layer of bolt-diy-supabase.                        *)
(*                                                                         *)
(* The module holds one state machine per component:                       *)
(*   - the connection verifier  (verifySupabaseConnection, three variants  *)
(*     found in the repository),                            SpecVerify     *)
(*   - the provisioning poll loop (pollProjectStatus, UI and management    *)
(*     variants) called on its own,                         SpecPoll       *)
(*   - the create-project flow (handleCreateProject),       SpecCreate     *)
(*   - the operation executor (executeDatabaseOperation),   SpecExec       *)
(*   - the SQL denylist (validateAndSanitizeQuery),         SpecSql        *)
(*   - the management proxy (api.supabase action),          SpecProxy      *)
(*   - the LLM database endpoint (api.llm-database action), SpecDbApi      *)
(*   - the credential store (localStorage accessors),       SpecStore      *)
(*   - the manual connect flow and the schema bootstrap,    SpecConnect    *)
(*   - the table SQL generator (generateTableSQL),          SpecSchema     *)
(*   - the remote-client singleton and database context,    SpecManager    *)
(*   - guarded SQL execution (executeSafeSQLQuery),         SpecSafe       *)
(*   - the connection pool (ConnectionPool),                SpecPool       *)
(*   - the retry helper and checkDatabaseConnection,        SpecRetry      *)
(* Every asynchronous function is cut at its awaits: one action per        *)
(* resumption, with the remote answer drawn by \E.                         *)
(***************************************************************************)
EXTENDS Integers, Sequences, FiniteSets, TLC

VARIABLES
    \* ---- connection verifier
    vVariant,     \* which verifySupabaseConnection: "current" | "earlier" | "lenient"
    vPc,          \* "start", the probe awaited, or "done"
    vProbes,      \* probes answered so far: <<[probe |-> name, res |-> outcome], ...>>
    vResult,      \* "none" while running, then "true" | "false" | "threw"
    \* ---- provisioning poll loop (pollProjectStatus)
    pVariant,     \* "ui" (SupabaseConnectButton) | "mgmt" (management.ts)
    projectRefLen,\* length of the projectRef argument, 0 when it is missing
    attempts,     \* the loop's attempt counter
    polls,        \* status requests sent so far
    inflight,     \* status requests sent and not yet answered
    timers,       \* pending setTimeout(checkStatus / poll) callbacks
    pState,       \* the returned promise: "notcalled" | "pending" | "resolved" | "rejected"
    pReason,      \* which Error it was rejected with, "none" otherwise
    pResponses,   \* answers handled so far
    pLast,        \* the answer handled last, "none" before the first
    pSeen,        \* classes of the answers handled so far
    pOnScript,    \* every answer so far was the next entry of ExpectedSeq
    \* ---- create-project flow (handleCreateProject)
    fPc,          \* where the flow stands; "unit" when the loop is called on its own
    devMode,      \* process.env.NODE_ENV === 'development'
    fOrg,         \* organization id in hand: "none" | "real" | "mock"
    refMock,      \* status.ref starts with 'mock-'
    fError,       \* what the flow's catch block received, "none" otherwise
    storedConfig, \* the ConnectionConfig slot of browser storage: <<>> or <<config>>
    \* ---- operation executor (executeDatabaseOperation)
    xVariant,     \* "service" (service.ts) | "llm" (llm-integration.ts)
    xConfig,      \* stored config as the invocation sees it: "none" | "invalid" | "valid"
    xOp,          \* the operation argument
    xUseCache,    \* options.cache
    xPc,          \* "idle", the remote call awaited, or "done"
    xCalls,       \* remote calls made by the current invocation, in order
    xAnswers,     \* what those calls came back with, in the same order
    xHit,         \* the current invocation returned the cached result
    xResult,      \* the envelope returned, NoResult while running
    xCache,       \* RequestCache: operations with a cached (successful) result
    xRuns,        \* invocations started so far
    \* ---- SQL denylist (validateAndSanitizeQuery)
    qQuery,       \* the query argument, a sequence of characters
    qPc,          \* "idle" | "done"
    qOut,         \* "none" | "returned" | "empty" | "harmful" (which error was thrown)
    qSanitized,   \* the string returned, <<>> when it threw
    \* ---- management proxy endpoint (api.supabase.ts action)
    rMethod,      \* request.method
    rJson,        \* the request body parses as JSON
    rPath,        \* the body has a non-empty path
    rKey,         \* the X-Supabase-Management-Key header is there
    rInner,       \* the method member of the body, "absent" when it has none
    rSent,        \* the method of the upstream request, "none" before it is sent
    rPc,          \* "idle" | "await_body" | "await_fetch" | "await_json" | "done"
    rForwarded,   \* upstream requests sent for this inbound request
    rUpStatus,    \* status of the upstream answer, 0 before it came
    rUpBody,      \* kind of body the upstream answered with, "none" before
    rStatus,      \* status of the response returned, 0 before
    rBody,        \* shape of the JSON returned: "none" | "error" | "upstream" | "data"
    \* ---- LLM database endpoint (api.llm-database.ts action, two variants)
    dVariant,     \* "llm" (lines 28-124) | "service" (lines 171-255)
    dMethod,      \* request.method
    dJson,        \* the request body parses as JSON
    dAction,      \* the action member of the body
    dParam,       \* the member the action needs (context, query, operation...) is there
    dConfig,      \* getSupabaseConfig() returns a config while this request is handled
    dAged,        \* the stored context was validated more than 5 minutes ago
    dCtx,         \* storedDatabaseContext: "none" | "accessible" | "inaccessible"
    dConnected,   \* context.connected of the current request
    dPc,          \* "idle" | "await_body" | "have_context" | "done"
    dStatus,      \* status of the response returned, 0 before
    dRemote,      \* requests sent to the remote database while handling this request
    dRequests,    \* requests received so far
    \* ---- credential store (browser localStorage and its accessors)
    ls,           \* localStorage: storage key -> <<>> (no item) or <<value>>
    sOp,          \* the operation performed last, "none" before the first
    sLastSet,     \* argument of the latest setSupabaseConfig call since the last clear
    sLastStored,  \* argument of the latest such call that returned
    sGot,         \* what the latest getSupabaseConfig returned: <<>> for null
    sOps          \* operations performed so far

verifyVars == <<vVariant, vPc, vProbes, vResult>>
pollVars == <<pVariant, projectRefLen, attempts, polls, inflight, timers, pState,
              pReason, pResponses, pLast, pSeen, pOnScript>>
flowVars == <<fPc, devMode, fOrg, refMock, fError, storedConfig>>
execVars == <<xVariant, xConfig, xOp, xUseCache, xPc, xCalls, xAnswers, xHit, xResult,
              xCache, xRuns>>

sqlVars == <<qQuery, qPc, qOut, qSanitized>>

proxyVars == <<rMethod, rJson, rPath, rKey, rInner, rSent, rPc, rForwarded, rUpStatus, rUpBody, rStatus,
               rBody>>

dbApiVars == <<dVariant, dMethod, dJson, dAction, dParam, dConfig, dAged, dCtx, dConnected,
               dPc, dStatus, dRemote, dRequests>>

storeVars == <<ls, sOp, sLastSet, sLastStored, sGot, sOps>>

\* The components added to the four above.
serverVars == <<sqlVars, proxyVars, dbApiVars, storeVars>>

VARIABLES
    \* ---- manual connect flow (handleConnect) and schema bootstrap
    cUrl,         \* the Project URL field of the dialog
    cKey,         \* the API Key field of the dialog
    cCaller,      \* who awaits the bootstrap: "none" | "connect" | "create"
    cVariant,     \* setupInitialStructure: "current" (setup.ts) | "throwing" (part_012)
    cPc,          \* "idle", the call awaited, "after_setup", "returned", "done", "failed"
    cConfig,      \* the config object of the invocation: <<>> or <<config>>
    cVerified,    \* configs for which this invocation's verifySupabaseConnection answered true
    cStepFailed,  \* a bootstrap step of this invocation came back with an error or threw
    cSetup,       \* setupInitialStructure: "none" | "resolved" | "threw"
    cSaveCalled,  \* this invocation reached setSupabaseConfig(config)
    cSlot,        \* the stored ConnectionConfig: <<>> or <<config>>
    cSlotBefore,  \* the slot when the invocation started
    cRuns         \* invocations started so far

connectVars == <<cUrl, cKey, cCaller, cVariant, cPc, cConfig, cVerified, cStepFailed,
                 cSetup, cSaveCalled, cSlot, cSlotBefore, cRuns>>

VARIABLES
    \* ---- table SQL generator (generateTableSQL, two variants)
    gVariant,     \* "interface" (schema.ts 74-110) | "zod" (schema.ts 168-216)
    gTable,       \* the table definition passed in
    gPc,          \* "idle" | "generated" | "parsed"
    gSql,         \* the SQL returned, as its sequence of lexical tokens
    gParsed       \* the columns read back from the CREATE TABLE clause

schemaVars == <<gVariant, gTable, gPc, gSql, gParsed>>

VARIABLES
    \* ---- remote-client singleton and database context (llm-supabase.ts)
    mStored,      \* what getSupabaseConfig() returns: <<>> (null) or <<project>>
    mClient,      \* SupabaseManager._client: <<>> or <<[id, config]>>
    mLastConfig,  \* SupabaseManager._lastConfig: <<>> or <<config string>>
    mCreated,     \* createClient calls so far
    mOp,          \* the call made last: "none" | "set" | "clear" | "getClient" | ...
    mGot,         \* what the latest getClient() call gave: <<>> when it threw, else <<client>>
    mOps,         \* calls made so far
    mCtx,         \* storedDatabaseContext: <<>> or <<[projectUrl, accessible, fresh]>>
    mPc,          \* getDatabaseContext: "idle" | "revalidate" | "schema" | "validate" | "done"
    mAtCall,      \* the stored config when getDatabaseContext was called
    mConfig,      \* its `config` constant, <<>> while the call has not read it
    mResult       \* what it returned: <<>> or <<[connected, projectUrl]>>

managerVars == <<mStored, mClient, mLastConfig, mCreated, mOp, mGot, mOps, mCtx, mPc,
                 mAtCall, mConfig, mResult>>

VARIABLES
    \* ---- guarded SQL execution (executeSafeSQLQuery)
    sqQuery,      \* the query argument, a string
    sqHasConfig,  \* whether a ConnectionConfig is stored (getClient succeeds)
    sqPc,         \* "idle" | "await_rpc" | "await_select" | "done"
    sqCalls,      \* remote calls issued so far: "rpc", <<"select", table>>
    sqResult      \* <<>> while running, then <<[success, error]>>

safeVars == <<sqQuery, sqHasConfig, sqPc, sqCalls, sqResult>>

VARIABLES
    \* ---- connection pool (ConnectionPool in service.ts)
    kPool,        \* _pool in insertion order: <<[key, client, idle], ...>>, idle being
                  \* Date.now() - lastUsed in milliseconds
    kNow,         \* milliseconds since the interval callback was due last
    kCreated,     \* createClient calls made by the pool so far
    kGets,        \* getConnection calls so far
    kLast         \* the latest getConnection: <<>> or <<[config, client]>>, client 0 when it threw

poolVars == <<kPool, kNow, kCreated, kGets, kLast>>

VARIABLES
    \* ---- retry helper and checkDatabaseConnection (service.ts)
    tOptions,     \* the RetryOptions the helper runs with
    tHasConfig,   \* whether a ConnectionConfig is stored
    tPc,          \* "idle" | "check" | "sleep" | "done"
    tAttempt,     \* the loop variable `attempt`
    tCheck,       \* which of the four checks of the current invocation is awaited
    tInvoked,     \* invocations of the operation so far
    tLastError,   \* the local `lastError`: <<>> for null, else <<error>>
    tThrown,      \* what each failed invocation of the operation threw, in order
    tReturned,    \* values returned by invocations of the operation, in order
    tDelay,       \* the local `delay`
    tSlept,       \* the delays waited so far
    tRetry,       \* how retryOperation ended: <<>>, <<"returned", v>> or <<"threw", e>>
    tResult       \* what checkDatabaseConnection gave: "none" | "true" | "false" | "threw"

retryVars == <<tOptions, tHasConfig, tPc, tAttempt, tCheck, tInvoked, tLastError, tThrown,
               tReturned, tDelay,
               tSlept, tRetry, tResult>>

\* The components added last.
lastVars == <<safeVars, poolVars, retryVars>>

\* The components added after the eight above.
laterVars == <<connectVars, schemaVars, managerVars, lastVars>>

\* What the actions of one component leave alone.
notVerify == <<pollVars, flowVars, execVars, serverVars, laterVars>>
notPoll == <<verifyVars, devMode, fOrg, refMock, fError, storedConfig, execVars, serverVars,
            laterVars>>
notFlow == <<verifyVars, execVars, serverVars, laterVars>>
notExec == <<verifyVars, pollVars, flowVars, serverVars, laterVars>>
notSql == <<verifyVars, pollVars, flowVars, execVars, proxyVars, dbApiVars, storeVars,
           laterVars>>
notProxy == <<verifyVars, pollVars, flowVars, execVars, sqlVars, dbApiVars, storeVars,
             laterVars>>
notDbApi == <<verifyVars, pollVars, flowVars, execVars, sqlVars, proxyVars, storeVars,
             laterVars>>
notStore == <<verifyVars, pollVars, flowVars, execVars, sqlVars, proxyVars, dbApiVars,
             laterVars>>

oldVars == <<verifyVars, pollVars, flowVars, execVars, serverVars>>
notConnect == <<oldVars, schemaVars, managerVars, lastVars>>
notSchema == <<oldVars, connectVars, managerVars, lastVars>>
notManager == <<oldVars, connectVars, schemaVars, lastVars>>
notSafe == <<oldVars, connectVars, schemaVars, managerVars, poolVars, retryVars>>
notPool == <<oldVars, connectVars, schemaVars, managerVars, safeVars, retryVars>>
notRetry == <<oldVars, connectVars, schemaVars, managerVars, safeVars, poolVars>>

----------------------------------------------------------------------------
(* Connection verifier                                                     *)

\* Error codes a probe can come back with. PGRST301 is PostgREST's
\* auth failure (bad JWT / key); "" is an error object without a code, which
\* is what the client library hands back for a failed fetch.
OkCodes == {"PGRST202", "42P01", "PGRST116"}
OtherCodes == {"PGRST301", ""}
ErrorCodes == OkCodes \cup OtherCodes

\* What awaiting one probe can produce: no error, an error with a code, or
\* an exception (rejected promise).
ProbeOutcomes == {"ok", "throw"} \cup ErrorCodes

VerifierVariants == {"current", "earlier", "lenient"}

\* The first probe each variant awaits after createClient.
FirstProbe(variant) ==
    CASE variant = "current" -> "version"
      [] variant = "earlier" -> "get_table_info"
      [] variant = "lenient" -> "get_service_role"

Answered(probe, res) == Append(vProbes, [probe |-> probe, res |-> res])

\* return <bool> from the function
VerifyReturn(b) ==
    /\ vPc' = "done"
    /\ vResult' = IF b THEN "true" ELSE "false"

\* createClient(...) inside the outer try: it throws on a malformed URL,
\* the outer catch returns false; otherwise the first probe is awaited.
VerifyCreateClient ==
    /\ vPc = "start"
    /\ \E throws \in BOOLEAN :
          IF throws
          THEN VerifyReturn(FALSE)
          ELSE /\ vPc' = FirstProbe(vVariant)
               /\ vResult' = vResult
    /\ UNCHANGED <<vVariant, vProbes, notVerify>>

\* ---- current variant (supabase.ts 213-259)

VersionAcceptsOnlyOk(res) == res = "ok"

\* if (!versionError || versionError.code === 'PGRST202')
VersionAccepts(res) == res = "ok" \/ res = "PGRST202"

\* if (!healthError || healthError.code === 'PGRST116' || healthError.code === '42P01')
SentinelAccepts(res) == res = "ok" \/ res = "PGRST116" \/ res = "42P01"

\* if (apiError && apiError.code === '42P01')
ApiAccepts(res) == res = "42P01"

VersionProbe ==
    /\ vVariant = "current"
    /\ vPc = "version"
    /\ \E res \in ProbeOutcomes :
          /\ vProbes' = Answered("version", res)
          /\ IF res = "throw" THEN VerifyReturn(FALSE)
             ELSE IF VersionAccepts(res) THEN VerifyReturn(TRUE)
             ELSE vPc' = "sentinel" /\ vResult' = vResult
    /\ UNCHANGED <<vVariant, notVerify>>

SentinelProbe ==
    /\ vVariant = "current"
    /\ vPc = "sentinel"
    /\ \E res \in ProbeOutcomes :
          /\ vProbes' = Answered("sentinel", res)
          /\ IF res = "throw" THEN VerifyReturn(FALSE)
             ELSE IF SentinelAccepts(res) THEN VerifyReturn(TRUE)
             ELSE vPc' = "api" /\ vResult' = vResult
    /\ UNCHANGED <<vVariant, notVerify>>

ApiProbe ==
    /\ vVariant = "current"
    /\ vPc = "api"
    /\ \E res \in ProbeOutcomes :
          /\ vProbes' = Answered("api", res)
          /\ IF res = "throw" THEN VerifyReturn(FALSE)
             ELSE VerifyReturn(ApiAccepts(res))
    /\ UNCHANGED <<vVariant, notVerify>>

\* ---- earlier variant (supabase.ts 53-94): one try/catch around everything

\* if (testError && !['PGRST116', '42P01'].includes(testError.code || '')) return false
TestConnAccepts(res) == ~(res # "ok" /\ res \notin {"PGRST116", "42P01"})

TableInfoProbe ==
    /\ vVariant = "earlier"
    /\ vPc = "get_table_info"
    /\ \E res \in ProbeOutcomes :
          /\ vProbes' = Answered("get_table_info", res)
          /\ IF res = "throw" THEN VerifyReturn(FALSE)
             ELSE IF res = "ok" THEN VerifyReturn(TRUE)
             ELSE IF res = "PGRST202" THEN vPc' = "_test_connection" /\ vResult' = vResult
             ELSE VerifyReturn(FALSE)
    /\ UNCHANGED <<vVariant, notVerify>>

TestConnProbe ==
    /\ vVariant = "earlier"
    /\ vPc = "_test_connection"
    /\ \E res \in ProbeOutcomes :
          /\ vProbes' = Answered("_test_connection", res)
          /\ IF res = "throw" THEN VerifyReturn(FALSE)
             ELSE VerifyReturn(TestConnAccepts(res))
    /\ UNCHANGED <<vVariant, notVerify>>

\* ---- lenient variant (unnamed/part_010 53-104): the inner catch returns true

ServiceRoleProbe ==
    /\ vVariant = "lenient"
    /\ vPc = "get_service_role"
    /\ \E res \in ProbeOutcomes :
          /\ vProbes' = Answered("get_service_role", res)
          /\ IF res = "throw" THEN VerifyReturn(TRUE)
             ELSE IF res = "PGRST202" THEN vPc' = "lenient_sentinel" /\ vResult' = vResult
             ELSE VerifyReturn(TRUE)
    /\ UNCHANGED <<vVariant, notVerify>>

LenientSentinelProbe ==
    /\ vVariant = "lenient"
    /\ vPc = "lenient_sentinel"
    /\ \E res \in ProbeOutcomes :
          /\ vProbes' = Answered("sentinel", res)
          /\ IF res = "throw" THEN VerifyReturn(TRUE)
             ELSE IF res # "ok" /\ res \notin {"PGRST116", "42P01"}
                  THEN vPc' = "lenient_version" /\ vResult' = vResult
             ELSE VerifyReturn(TRUE)
    /\ UNCHANGED <<vVariant, notVerify>>

LenientVersionProbe ==
    /\ vVariant = "lenient"
    /\ vPc = "lenient_version"
    /\ \E res \in ProbeOutcomes :
          /\ vProbes' = Answered("version", res)
          /\ IF res = "throw" THEN VerifyReturn(TRUE)
             ELSE IF res # "ok" /\ res # "PGRST202" THEN VerifyReturn(FALSE)
             ELSE VerifyReturn(TRUE)
    /\ UNCHANGED <<vVariant, notVerify>>

VerifyInit ==
    /\ vVariant \in VerifierVariants
    /\ vPc = "start"
    /\ vProbes = <<>>
    /\ vResult = "none"

VerifyIdle ==
    /\ vVariant = "current"
    /\ vPc = "done"
    /\ vProbes = <<>>
    /\ vResult = "none"

VerifyNext ==
    \/ VerifyCreateClient
    \/ VersionProbe
    \/ SentinelProbe
    \/ ApiProbe
    \/ TableInfoProbe
    \/ TestConnProbe
    \/ ServiceRoleProbe
    \/ LenientSentinelProbe
    \/ LenientVersionProbe


----------------------------------------------------------------------------
(* Provisioning poll loop                                                  *)

\* const maxAttempts = 30 (UI loop)
maxAttempts == 30
\* const MAX_POLL_ATTEMPTS = 180 (management module)
MAX_POLL_ATTEMPTS == 180
\* projectRef.length < 20
MinRefLen == 20
\* Longest project reference tried.
MaxRefLen == 21

Ceiling(variant) == IF variant = "ui" THEN maxAttempts ELSE MAX_POLL_ATTEMPTS

\* Status strings of the platform; INACTIVE stands for any string the switch
\* sends to its default branch.
Statuses == {"BUILDING", "PROVISIONING", "COMING_UP", "ACTIVE_HEALTHY",
             "ERROR_PROVISIONING", "BUILDING_FAILED", "PROVISIONING_FAILED",
             "INACTIVE"}
FailureStatuses == {"ERROR_PROVISIONING", "BUILDING_FAILED", "PROVISIONING_FAILED"}

\* What a status request of the UI loop can come back with: a 2xx body with
\* data.status, a non-2xx response, the 400 "ref must be longer" response, a
\* 2xx body without data, or an exception (fetch or response.json() throws).
HttpFailures == {"HTTP_NON_2XX", "HTTP_400_REF_TOO_SHORT", "NO_DATA", "THROW"}
UiOutcomes == Statuses \cup HttpFailures

\* The status sequence of the provisioning state machine.
ExpectedSeq == <<"BUILDING", "PROVISIONING", "COMING_UP", "ACTIVE_HEALTHY">>

RefValidOnlyPresent(len) == len >= 1

\* !(!projectRef || projectRef.length < 20)
RefValid(len) == len >= MinRefLen

IsSuccessStatusEarly(s) == s = "ACTIVE_HEALTHY" \/ s = "COMING_UP"

\* currentStatus === 'ACTIVE_HEALTHY'
IsSuccessStatus(s) == s = "ACTIVE_HEALTHY"

IsFailureStatusNoError(s) == s = "BUILDING_FAILED" \/ s = "PROVISIONING_FAILED"

\* currentStatus === 'ERROR_PROVISIONING' || 'BUILDING_FAILED' || 'PROVISIONING_FAILED'
IsFailureStatus(s) ==
    s = "ERROR_PROVISIONING" \/ s = "BUILDING_FAILED" \/ s = "PROVISIONING_FAILED"

\* resolve() / reject(new Error(...)): a promise settles once, later calls
\* are ignored.
Settle(state, reason) ==
    /\ pState' = IF pState = "pending" THEN state ELSE pState
    /\ pReason' = IF pState = "pending" /\ state = "rejected" THEN reason ELSE pReason

ScheduleTwice ==
    /\ timers' = timers + 2
    /\ UNCHANGED <<pState, pReason>>

\* setTimeout(checkStatus, 10000) / setTimeout(poll, POLL_INTERVAL)
Schedule ==
    /\ timers' = timers + 1
    /\ UNCHANGED <<pState, pReason>>

CountAndRetryOwnCounter(variant) ==
    /\ attempts' = attempts
    /\ Schedule

\* attempts++; if (attempts >= maxAttempts) { reject(timeout); return; }
\* ...; setTimeout(checkStatus, 10000)
CountAndRetry(variant) ==
    /\ attempts' = attempts + 1
    /\ IF attempts + 1 >= Ceiling(variant)
       THEN Settle("rejected", "timeout") /\ timers' = timers
       ELSE Schedule

\* Class of an answer of the UI loop.
UiClass(out) ==
    CASE out = "ACTIVE_HEALTHY" -> "success"
      [] out \in FailureStatuses -> "failure"
      [] out \in Statuses \ ({"ACTIVE_HEALTHY"} \cup FailureStatuses) -> "nonterminal"
      [] out = "HTTP_400_REF_TOO_SHORT" -> "fatal"
      [] OTHER -> "httpfail"

Observe(out, class) ==
    /\ pResponses' = pResponses + 1
    /\ pLast' = out
    /\ pSeen' = pSeen \cup {class}
    /\ pOnScript' = (/\ pOnScript
                     /\ pResponses + 1 <= Len(ExpectedSeq)
                     /\ out = ExpectedSeq[pResponses + 1])

\* checkStatus up to its first await: the reference check, then the fetch.
CheckStatusEntry ==
    IF ~RefValid(projectRefLen)
    THEN /\ Settle("rejected", "invalid_ref")
         /\ UNCHANGED <<polls, inflight>>
    ELSE /\ polls' = polls + 1
         /\ inflight' = inflight + 1
         /\ UNCHANGED <<pState, pReason>>

\* pollProjectStatus(projectRef, managementKey) of the UI: new Promise(...)
\* runs checkStatus() at once.
UiPollCall ==
    /\ pVariant = "ui"
    /\ pState = "notcalled"
    /\ fPc \in {"unit", "call_poll"}
    /\ fPc' = IF fPc = "call_poll" THEN "await_poll" ELSE fPc
    /\ IF ~RefValid(projectRefLen)
       THEN /\ pState' = "rejected"
            /\ pReason' = "invalid_ref"
            /\ UNCHANGED <<polls, inflight>>
       ELSE /\ pState' = "pending"
            /\ polls' = polls + 1
            /\ inflight' = inflight + 1
            /\ UNCHANGED pReason
    /\ UNCHANGED <<pVariant, projectRefLen, attempts, timers, pResponses, pLast,
                   pSeen, pOnScript, notPoll>>

\* The timer set by setTimeout(checkStatus, 10000) fires.
UiTimerFire ==
    /\ pVariant = "ui"
    /\ timers > 0
    /\ timers' = timers - 1
    /\ CheckStatusEntry
    /\ UNCHANGED <<pVariant, projectRefLen, attempts, pResponses, pLast, pSeen,
                   pOnScript, fPc, notPoll>>

UiOnHttpFailureTerminal(out) ==
    /\ attempts' = attempts + 1
    /\ Settle("rejected", "invalid_ref")
    /\ timers' = timers

\* The !response.ok branch, the !result.data branch and the catch block.
\* In the !response.ok branch the ceiling is tested before the 400 test.
UiOnHttpFailure(out) ==
    /\ attempts' = attempts + 1
    /\ IF attempts + 1 >= maxAttempts
       THEN Settle("rejected", "timeout") /\ timers' = timers
       ELSE IF out = "HTTP_400_REF_TOO_SHORT"
       THEN Settle("rejected", "invalid_ref") /\ timers' = timers
       ELSE Schedule

\* The rest of checkStatus for a 2xx answer with data.status = s.
UiOnStatus(s) ==
    IF IsSuccessStatus(s)
    THEN Settle("resolved", "none") /\ UNCHANGED <<attempts, timers>>
    ELSE IF IsFailureStatus(s)
    THEN Settle("rejected", "failed") /\ UNCHANGED <<attempts, timers>>
    ELSE CountAndRetry("ui")

\* checkStatus resumes with the answer to its fetch.
UiPollResponse ==
    /\ pVariant = "ui"
    /\ inflight > 0
    /\ inflight' = inflight - 1
    /\ \E out \in UiOutcomes :
          /\ Observe(out, UiClass(out))
          /\ IF out \in HttpFailures THEN UiOnHttpFailure(out) ELSE UiOnStatus(out)
    /\ UNCHANGED <<pVariant, projectRefLen, polls, fPc, notPoll>>

\* ---- management module loop (management.ts 192-276): no reference check,
\* readiness read from the services list, any exception rejects.

MgmtPollCall ==
    /\ pVariant = "mgmt"
    /\ pState = "notcalled"
    /\ fPc = "unit"
    /\ pState' = "pending"
    /\ polls' = polls + 1
    /\ inflight' = inflight + 1
    /\ UNCHANGED <<pVariant, projectRefLen, attempts, timers, pReason, pResponses,
                   pLast, pSeen, pOnScript, fPc, notPoll>>

MgmtTimerFire ==
    /\ pVariant = "mgmt"
    /\ timers > 0
    /\ timers' = timers - 1
    /\ polls' = polls + 1
    /\ inflight' = inflight + 1
    /\ UNCHANGED <<pVariant, projectRefLen, attempts, pState, pReason, pResponses,
                   pLast, pSeen, pOnScript, fPc, notPoll>>

MgmtClass(http, s, allReady) ==
    IF http # "ok" THEN "httpfail"
    ELSE IF allReady THEN "success"
    ELSE IF s \in FailureStatuses THEN "failure"
    ELSE "nonterminal"

\* poll resumes with the answer: http is "ok", "notok" (!response.ok throws)
\* or "throw"; s is data.status, allReady is services.every(ACTIVE_HEALTHY).
MgmtPollResponse ==
    /\ pVariant = "mgmt"
    /\ inflight > 0
    /\ inflight' = inflight - 1
    /\ \E http \in {"ok", "notok", "throw"}, s \in Statuses, allReady \in BOOLEAN :
          /\ http # "ok" => (s = "INACTIVE" /\ ~allReady)
          /\ Observe(IF http = "ok" THEN s ELSE "THROW", MgmtClass(http, s, allReady))
          /\ IF http # "ok"
             THEN Settle("rejected", "http") /\ UNCHANGED <<attempts, timers>>
             ELSE IF allReady
             THEN Settle("resolved", "none") /\ UNCHANGED <<attempts, timers>>
             ELSE CountAndRetry("mgmt")
    /\ UNCHANGED <<pVariant, projectRefLen, polls, fPc, notPoll>>

PollIdle ==
    /\ attempts = 0
    /\ polls = 0
    /\ inflight = 0
    /\ timers = 0
    /\ pState = "notcalled"
    /\ pReason = "none"
    /\ pResponses = 0
    /\ pLast = "none"
    /\ pSeen = {}
    /\ pOnScript = TRUE

\* pollProjectStatus called on its own with any reference.
PollInit ==
    /\ pVariant \in {"ui", "mgmt"}
    /\ projectRefLen \in 0..MaxRefLen
    /\ pVariant = "mgmt" => projectRefLen \in {0, MaxRefLen}
    /\ PollIdle
    /\ fPc = "unit"

PollNext ==
    \/ UiPollCall
    \/ UiTimerFire
    \/ UiPollResponse
    \/ MgmtPollCall
    \/ MgmtTimerFire
    \/ MgmtPollResponse

----------------------------------------------------------------------------
(* Create-project flow (handleCreateProject)                               *)

\* createMockProject: `mock-${Date.now()}-${Math.random().toString(36).substring(2, 10)}`
\* is 5 + 13 + 1 characters followed by 0 to 8 more.
MockRefLens == {19 + k : k \in 0..8}

\* throw inside the outer try: the catch block shows the error, nothing is stored.
FlowFail(why) ==
    /\ fPc' = "failed"
    /\ fError' = why

\* handleCreateProject up to `await getOrgId()`: returns at once when the
\* project name or the management key is missing.
HandleCreateProject ==
    /\ fPc = "idle"
    /\ \E hasName \in BOOLEAN, hasKey \in BOOLEAN :
          fPc' = IF hasName /\ hasKey THEN "org" ELSE "returned"
    /\ UNCHANGED <<devMode, fOrg, refMock, fError, storedConfig, pollVars, notFlow>>

\* getOrgId() returns an id or throws; in development a mock id replaces a
\* failure. The create-project request is sent next.
OrgIdReturn ==
    /\ fPc = "org"
    /\ \E ok \in BOOLEAN :
          IF ok
          THEN fOrg' = "real" /\ fPc' = "create" /\ fError' = fError
          ELSE IF devMode
          THEN fOrg' = "mock" /\ fPc' = "create" /\ fError' = fError
          ELSE fOrg' = fOrg /\ FlowFail("org")
    /\ UNCHANGED <<devMode, refMock, storedConfig, pollVars, notFlow>>

\* The answer to the create-project request, then the reference check
\* `!status.ref || status.ref.length < 20` and the choice of the poll loop.
CreateResponse ==
    /\ fPc = "create"
    /\ \E http \in {"ok", "notok", "nodata", "throw"}, len \in 0..MaxRefLen,
          mockLen \in MockRefLens :
          /\ http # "ok" => len = 0
          /\ (http = "ok" \/ ~devMode) => mockLen = 19
          /\ IF http # "ok" /\ ~devMode
             THEN /\ FlowFail("create")
                  /\ UNCHANGED <<projectRefLen, refMock>>
             ELSE /\ projectRefLen' = IF http = "ok" THEN len ELSE mockLen
                  /\ refMock' = (http # "ok")
                  /\ IF ~RefValid(projectRefLen')
                     THEN FlowFail("invalid_ref")
                     ELSE /\ fPc' = IF refMock' THEN "mock_poll" ELSE "call_poll"
                          /\ fError' = fError
    /\ UNCHANGED <<devMode, fOrg, storedConfig, pVariant, attempts, polls, inflight,
                   timers, pState, pReason, pResponses, pLast, pSeen, pOnScript,
                   notFlow>>

\* `await pollProjectStatus(...)` settles: on rejection the development build
\* falls back to the mock loop, any other build rethrows.
PollSettled ==
    /\ fPc = "await_poll"
    /\ pState \in {"resolved", "rejected"}
    /\ IF pState = "resolved"
       THEN fPc' = "wait" /\ fError' = fError
       ELSE IF devMode /\ ~refMock
       THEN fPc' = "mock_poll" /\ fError' = fError
       ELSE FlowFail(pReason)
    /\ UNCHANGED <<devMode, fOrg, refMock, storedConfig, pollVars, notFlow>>

\* mockPollProjectStatus: three chained 3 s timers, then resolve().
MockPollDone ==
    /\ fPc = "mock_poll"
    /\ fPc' = "wait"
    /\ UNCHANGED <<devMode, fOrg, refMock, fError, storedConfig, pollVars, notFlow>>

\* The 2 s wait ends; setupInitialStructure(config) is awaited.
WaitDone ==
    /\ fPc = "wait"
    /\ fPc' = "setup"
    /\ UNCHANGED <<devMode, fOrg, refMock, fError, storedConfig, pollVars, notFlow>>

\* setupInitialStructure returned; setSupabaseConfig(config) writes the slot
\* (the encrypting variant throws when the write fails).
SetupReturn ==
    /\ fPc = "setup"
    /\ \E saved \in BOOLEAN :
          IF saved
          THEN /\ storedConfig' = <<[refLen |-> projectRefLen, mock |-> refMock]>>
               /\ fPc' = "done"
               /\ fError' = fError
          ELSE /\ storedConfig' = storedConfig
               /\ FlowFail("save")
    /\ UNCHANGED <<devMode, fOrg, refMock, pollVars, notFlow>>

FlowInit ==
    /\ fPc = "idle"
    /\ devMode \in BOOLEAN
    /\ fOrg = "none"
    /\ refMock = FALSE
    /\ fError = "none"
    /\ storedConfig = <<>>
    /\ pVariant = "ui"
    /\ projectRefLen = 0
    /\ PollIdle

FlowNext ==
    \/ HandleCreateProject
    \/ OrgIdReturn
    \/ CreateResponse
    \/ UiPollCall
    \/ UiTimerFire
    \/ UiPollResponse
    \/ PollSettled
    \/ MockPollDone
    \/ WaitDone
    \/ SetupReturn

----------------------------------------------------------------------------
(* Operation executor (executeDatabaseOperation)                           *)

\* Invocations of the executor in one behaviour.
MaxRuns == 2

\* "upsert" stands for any type string outside the five the switch knows.
OpTypes == {"select", "insert", "update", "delete", "execute", "upsert"}

\* A filter is absent, the empty object {} or an object with a column condition.
FilterKinds == {"absent", "empty", "cond"}

\* The fields the case of a type reads; an operation is drawn with any subset
\* of them present (a field its case never reads cannot change what it does).
Reads(type) ==
    CASE type = "select" -> {"table", "query", "filter"}
      [] type = "insert" -> {"table", "data"}
      [] type = "update" -> {"table", "data", "filter"}
      [] type = "delete" -> {"table", "filter"}
      [] type = "execute" -> {"query"}
      [] OTHER -> {}

Operations ==
    {op \in [type : OpTypes, table : BOOLEAN, data : BOOLEAN, filter : FilterKinds,
             query : BOOLEAN] :
        /\ op.table => "table" \in Reads(op.type)
        /\ op.data => "data" \in Reads(op.type)
        /\ op.query => "query" \in Reads(op.type)
        /\ op.filter # "absent" => "filter" \in Reads(op.type)}

\* No operation yet, and the envelope before the function returned.
NoOp == [type |-> "none", table |-> FALSE, data |-> FALSE, filter |-> "absent",
         query |-> FALSE]
NoResult == [success |-> FALSE, error |-> ""]

\* !operation.filter: the empty object is truthy
NoFilter(op) == op.filter = "absent"

MissingMessageUpdateUnchecked(op) ==
    CASE op.type = "select" /\ ~op.table ->
            "Table name is required for select operations"
      [] op.type = "insert" /\ (~op.table \/ ~op.data) ->
            "Table name and data are required for insert operations"
      [] op.type = "update" /\ (~op.table \/ ~op.data) ->
            "Table name, data, and filter are required for update operations"
      [] op.type = "delete" /\ (~op.table \/ NoFilter(op)) ->
            "Table name and filter are required for delete operations"
      [] op.type = "execute" /\ ~op.query ->
            "SQL query is required for execute operations"
      [] op.type \notin {"select", "insert", "update", "delete", "execute"} ->
            "Unsupported operation type"
      [] OTHER -> ""

\* The throw each case of the switch starts with, "" when the case goes on
\* to the remote call (service.ts).
MissingMessage(op) ==
    CASE op.type = "select" /\ ~op.table ->
            "Table name is required for select operations"
      [] op.type = "insert" /\ (~op.table \/ ~op.data) ->
            "Table name and data are required for insert operations"
      [] op.type = "update" /\ (~op.table \/ ~op.data \/ NoFilter(op)) ->
            "Table name, data, and filter are required for update operations"
      [] op.type = "delete" /\ (~op.table \/ NoFilter(op)) ->
            "Table name and filter are required for delete operations"
      [] op.type = "execute" /\ ~op.query ->
            "SQL query is required for execute operations"
      [] op.type \notin {"select", "insert", "update", "delete", "execute"} ->
            "Unsupported operation type"
      [] OTHER -> ""

\* The same checks in llm-integration.ts.
LlmMissingMessage(op) ==
    CASE op.type = "select" /\ ~op.table ->
            "Table name is required for select operations"
      [] op.type = "insert" /\ (~op.table \/ ~op.data) ->
            "Table name and data are required for insert operations"
      [] op.type = "update" /\ (~op.table \/ ~op.data \/ NoFilter(op)) ->
            "Table name, data, and filter are required for update operations"
      [] op.type = "delete" /\ (~op.table \/ NoFilter(op)) ->
            "Table name and filter are required for delete operations"
      [] op.type = "execute" /\ ~op.query ->
            "Query is required for execute operations"
      [] op.type \notin {"select", "insert", "update", "delete", "execute"} ->
            "Unsupported operation"
      [] OTHER -> ""

\* The remote call a case makes first.
FirstCall(op) == IF op.type = "execute" THEN "rpc" ELSE op.type

\* return { success: false, error: { message } } from the catch block
ExecFail(message) ==
    /\ xPc' = "done"
    /\ xResult' = [success |-> FALSE, error |-> message]

\* result = { success: true, data }; cache.set when options.cache; return result
ExecSucceed ==
    /\ xPc' = "done"
    /\ xResult' = [success |-> TRUE, error |-> ""]
    /\ xCache' = IF xUseCache THEN xCache \cup {xOp} ELSE xCache

\* What getSupabaseConfig hands an invocation: nothing stored, a stored pair
\* that validateSupabaseConfig refuses, or one it accepts. The store can be
\* written or cleared between two invocations.
ConfigKinds == {"none", "invalid", "valid"}

\* service.ts executeDatabaseOperation up to its first await of a remote call.
\* cache.get drops an entry older than its ttl, which `expired` decides.
ServiceExecCall ==
    /\ xVariant = "service"
    /\ xPc \in {"idle", "done"}
    /\ xRuns < MaxRuns
    /\ xRuns' = xRuns + 1
    /\ \E op \in Operations, useCache \in BOOLEAN, expired \in BOOLEAN, cfg \in ConfigKinds :
          /\ xOp' = op
          /\ xUseCache' = useCache
          /\ xConfig' = cfg
          /\ expired => (useCache /\ op \in xCache)
          /\ xCache' = IF expired THEN xCache \ {op} ELSE xCache
          /\ xHit' = (useCache /\ op \in xCache /\ ~expired)
          /\ IF useCache /\ op \in xCache /\ ~expired
             THEN /\ xPc' = "done"
                  /\ xResult' = [success |-> TRUE, error |-> ""]
                  /\ xCalls' = <<>>
             ELSE IF cfg = "none"
             THEN ExecFail("Supabase configuration not found") /\ xCalls' = <<>>
             ELSE IF cfg = "invalid"
             THEN ExecFail("Failed to create database connection") /\ xCalls' = <<>>
             ELSE IF MissingMessage(op) # ""
             THEN ExecFail(MissingMessage(op)) /\ xCalls' = <<>>
             ELSE /\ xCalls' = <<FirstCall(op)>>
                  /\ xPc' = IF op.type = "execute" THEN "await_rpc" ELSE "await_query"
                  /\ xResult' = NoResult
    /\ xAnswers' = <<>>
    /\ UNCHANGED <<xVariant, notExec>>

\* What awaiting a remote call can produce: no error, an error object in
\* the result, or an exception.
RemoteOutcomes == {"ok", "error", "throw"}

QueryFailedOnlyThrow(res) == res = "throw"

\* `if (error) { throw error; }` after the await, or the await itself threw
QueryFailed(res) == res # "ok"

\* `const { data, error } = await query`: an error is thrown to the catch
\* block, which reports its message.
ServiceQueryReturn ==
    /\ xVariant = "service"
    /\ xPc = "await_query"
    /\ \E res \in RemoteOutcomes :
          /\ xAnswers' = Append(xAnswers, res)
          /\ IF QueryFailed(res)
             THEN ExecFail("remote error") /\ xCache' = xCache
             ELSE ExecSucceed
    /\ UNCHANGED <<xVariant, xConfig, xOp, xUseCache, xHit, xCalls, xRuns, notExec>>

\* `await supabase.rpc('execute_sql', ...)`: on an error (returned or
\* thrown) the inner catch sends the REST request.
RpcFailedAlways(res) == TRUE

\* `if (error) { throw error; }` inside the inner try, or the rpc threw
RpcFailed(res) == res # "ok"

ServiceRpcReturn ==
    /\ xVariant = "service"
    /\ xPc = "await_rpc"
    /\ \E res \in RemoteOutcomes :
          /\ xAnswers' = Append(xAnswers, res)
          /\ IF RpcFailed(res)
             THEN /\ xCalls' = Append(xCalls, "rest")
                  /\ xPc' = "await_rest"
                  /\ UNCHANGED <<xResult, xCache>>
             ELSE ExecSucceed /\ xCalls' = xCalls
    /\ UNCHANGED <<xVariant, xConfig, xOp, xUseCache, xHit, xRuns, notExec>>

\* `await fetch(`${supabaseUrl}/rest/v1/`, ...)`: a non-2xx answer or an
\* exception becomes 'Failed to execute SQL query using REST API'.
ServiceRestReturn ==
    /\ xVariant = "service"
    /\ xPc = "await_rest"
    /\ \E res \in RemoteOutcomes :
          /\ xAnswers' = Append(xAnswers, res)
          /\ IF res = "ok" THEN ExecSucceed
             ELSE ExecFail("Failed to execute SQL query using REST API") /\ xCache' = xCache
    /\ UNCHANGED <<xVariant, xConfig, xOp, xUseCache, xHit, xCalls, xRuns, notExec>>

\* llm-integration.ts executeDatabaseOperation up to its await: no cache and
\* no validation of the stored config, createSupabaseClient throws without one.
LlmExecCall ==
    /\ xVariant = "llm"
    /\ xPc \in {"idle", "done"}
    /\ xRuns < MaxRuns
    /\ xRuns' = xRuns + 1
    /\ \E op \in Operations, cfg \in ConfigKinds :
          /\ xOp' = op
          /\ xConfig' = cfg
          /\ IF cfg = "none"
             THEN ExecFail("Supabase configuration not found") /\ xCalls' = <<>>
             ELSE IF LlmMissingMessage(op) # ""
             THEN ExecFail(LlmMissingMessage(op)) /\ xCalls' = <<>>
             ELSE /\ xCalls' = <<FirstCall(op)>>
                  /\ xPc' = "await_query"
                  /\ xResult' = NoResult
    /\ xAnswers' = <<>>
    /\ UNCHANGED <<xVariant, xUseCache, xHit, xCache, notExec>>

\* `result = await ...`: result.error is thrown; it is no Error instance, so
\* the catch block reports 'Unknown database error'; a thrown Error reports
\* its own message.
LlmQueryReturn ==
    /\ xVariant = "llm"
    /\ xPc = "await_query"
    /\ \E res \in RemoteOutcomes :
          /\ xAnswers' = Append(xAnswers, res)
          /\ IF res = "ok"
             THEN xPc' = "done" /\ xResult' = [success |-> TRUE, error |-> ""]
             ELSE IF res = "error"
             THEN ExecFail("Unknown database error")
             ELSE ExecFail("remote error")
    /\ UNCHANGED <<xVariant, xConfig, xOp, xUseCache, xHit, xCalls, xCache, xRuns, notExec>>

ExecInit ==
    /\ xVariant \in {"service", "llm"}
    /\ xConfig \in ConfigKinds
    /\ xOp = NoOp
    /\ xUseCache = FALSE
    /\ xPc = "idle"
    /\ xCalls = <<>>
    /\ xAnswers = <<>>
    /\ xHit = FALSE
    /\ xResult = NoResult
    /\ xCache = {}
    /\ xRuns = 0

ExecNext ==
    \/ ServiceExecCall
    \/ ServiceQueryReturn
    \/ ServiceRpcReturn
    \/ ServiceRestReturn
    \/ LlmExecCall
    \/ LlmQueryReturn

----------------------------------------------------------------------------
(* SQL denylist (validateAndSanitizeQuery)                                 *)

\* Pieces a query is put together from.
MaxTokens == 3

UpperCase == <<"A", "B", "C", "D", "E", "F", "G", "H", "I", "J", "K", "L", "M",
               "N", "O", "P", "Q", "R", "S", "T", "U", "V", "W", "X", "Y", "Z">>
LowerCase == <<"a", "b", "c", "d", "e", "f", "g", "h", "i", "j", "k", "l", "m",
               "n", "o", "p", "q", "r", "s", "t", "u", "v", "w", "x", "y", "z">>

\* Canonicalisation of a character under the regular expression flag i.
Fold(c) ==
    IF \E i \in 1..26 : UpperCase[i] = c
    THEN LowerCase[CHOOSE i \in 1..26 : UpperCase[i] = c]
    ELSE c

\* The characters \s matches and trim() strips (of those a query is built from).
IsSpace(c) == c \in {" ", "\n"}

\* The element of a pattern that stands for \s+ .
WS == "\\s+"

DangerousPatternsWithComments ==
    { <<"x", "p", "_", "c", "m", "d", "s", "h", "e", "l", "l">>,
      <<"E", "X", "E", "C", "U", "T", "E", WS, "A", "S", WS, "O", "W", "N", "E", "R">>,
      <<"I", "N", "T", "O", WS, "O", "U", "T", "F", "I", "L", "E">>,
      <<"L", "O", "A", "D", "_", "F", "I", "L", "E">>,
      <<"-", "-">> }

\* const dangerousPatterns = [ ... ]: four expressions, all with flag i
DangerousPatterns ==
    { <<"x", "p", "_", "c", "m", "d", "s", "h", "e", "l", "l">>,
      <<"E", "X", "E", "C", "U", "T", "E", WS, "A", "S", WS, "O", "W", "N", "E", "R">>,
      <<"I", "N", "T", "O", WS, "O", "U", "T", "F", "I", "L", "E">>,
      <<"L", "O", "A", "D", "_", "F", "I", "L", "E">> }

RECURSIVE MatchFrom(_, _, _, _)
\* The pattern from element i on matches the string starting at position j.
MatchFrom(pat, i, str, j) ==
    IF i > Len(pat) THEN TRUE
    ELSE IF j > Len(str) THEN FALSE
    ELSE IF pat[i] = WS
    THEN /\ IsSpace(str[j])
         /\ (MatchFrom(pat, i + 1, str, j + 1) \/ MatchFrom(pat, i, str, j + 1))
    ELSE /\ Fold(str[j]) = Fold(pat[i])
         /\ MatchFrom(pat, i + 1, str, j + 1)

\* pattern.test(str): the pattern matches somewhere in the string
PatternTest(pat, str) == \E j \in 1..Len(str) : MatchFrom(pat, 1, str, j)

RECURSIVE TrimStart(_)
TrimStart(str) ==
    IF str # <<>> /\ IsSpace(Head(str)) THEN TrimStart(Tail(str)) ELSE str

RECURSIVE TrimEnd(_)
TrimEnd(str) ==
    IF str # <<>> /\ IsSpace(str[Len(str)])
    THEN TrimEnd(SubSeq(str, 1, Len(str) - 1))
    ELSE str

\* String.prototype.trim
Trim(str) == TrimEnd(TrimStart(str))

\* Queries are drawn as concatenations of these pieces.
Tokens ==
    { <<"x", "p", "_", "c", "m", "d", "s", "h", "e", "l", "l">>,
      <<"X", "P", "_", "C", "m", "d", "S", "h", "e", "l", "l">>,
      <<"x", "p", "_", "c", "m", "d">>,
      <<"s", "h", "e", "l", "l">>,
      <<"-", "-">>,
      <<";">>,
      <<" ">>,
      <<"\n">>,
      <<"a">>,
      <<"i", "n", "t", "o">>,
      <<"O", "U", "T", "F", "I", "L", "E">>,
      <<"l", "o", "a", "d", "_", "f", "i", "l", "e">>,
      <<"e", "x", "e", "c", "u", "t", "e", " ", "a", "s">>,
      <<"o", "w", "n", "e", "r">> }

RECURSIVE Flatten(_)
Flatten(ts) == IF ts = <<>> THEN <<>> ELSE Head(ts) \o Flatten(Tail(ts))

Queries == {Flatten(ts) : ts \in UNION {[1..n -> Tokens] : n \in 0..MaxTokens}}

\* validateAndSanitizeQuery(query)
ValidateAndSanitizeQuery ==
    /\ qPc = "idle"
    /\ qPc' = "done"
    /\ IF Trim(qQuery) = <<>>
       THEN qOut' = "empty" /\ qSanitized' = <<>>
       ELSE IF \E pat \in DangerousPatterns : PatternTest(pat, Trim(qQuery))
       THEN qOut' = "harmful" /\ qSanitized' = <<>>
       ELSE qOut' = "returned" /\ qSanitized' = Trim(qQuery)
    /\ UNCHANGED <<qQuery, notSql>>

SqlInit ==
    /\ qQuery \in Queries
    /\ qPc = "idle"
    /\ qOut = "none"
    /\ qSanitized = <<>>

SqlIdle ==
    /\ qQuery = <<>>
    /\ qPc = "idle"
    /\ qOut = "none"
    /\ qSanitized = <<>>

SqlNext == ValidateAndSanitizeQuery

----------------------------------------------------------------------------
(* Management proxy endpoint (api.supabase.ts)                             *)

Methods == {"POST", "GET", "PUT"}

\* const { path, method = 'GET', body } = requestData
InnerMethods == {"absent", "GET", "POST", "DELETE"}

\* Statuses the management API answers with, and the bodies that come with
\* them: a JSON array, a JSON object, a JSON object with a message member,
\* or something response.json() cannot parse (empty or HTML).
UpstreamStatuses == {200, 201, 400, 404, 502}
UpstreamBodies == {"array", "object", "object_message", "not_json"}

\* response.ok
Ok2xx(status) == status >= 200 /\ status <= 299

\* return json(payload, { status })
Respond(status, body) ==
    /\ rPc' = "done"
    /\ rStatus' = status
    /\ rBody' = body

\* action(): the method test, then `await request.json()`.
ProxyReceive ==
    /\ rPc = "idle"
    /\ IF rMethod # "POST"
       THEN Respond(405, "error")
       ELSE rPc' = "await_body" /\ UNCHANGED <<rStatus, rBody>>
    /\ UNCHANGED <<rMethod, rJson, rPath, rKey, rInner, rSent, rForwarded, rUpStatus, rUpBody,
                   notProxy>>

KeyMissingNever(key) == FALSE

\* if (!managementKey)
KeyMissing(key) == ~key

\* The body arrived: the path and header tests, then the upstream fetch.
ProxyBodyParsed ==
    /\ rPc = "await_body"
    /\ IF ~rJson
       THEN Respond(500, "error") /\ UNCHANGED <<rForwarded, rSent>>
       ELSE IF ~rPath
       THEN Respond(400, "error") /\ UNCHANGED <<rForwarded, rSent>>
       ELSE IF KeyMissing(rKey)
       THEN Respond(401, "error") /\ UNCHANGED <<rForwarded, rSent>>
       ELSE /\ rForwarded' = rForwarded + 1
            /\ rSent' = IF rInner = "absent" THEN "GET" ELSE rInner
            /\ rPc' = "await_fetch"
            /\ UNCHANGED <<rStatus, rBody>>
    /\ UNCHANGED <<rMethod, rJson, rPath, rKey, rInner, rUpStatus, rUpBody, notProxy>>

\* `await fetch(...)` settles: it throws on a transport error, otherwise the
\* handler goes on to `await response.json()`.
ProxyFetchSettled ==
    /\ rPc = "await_fetch"
    /\ \/ /\ Respond(500, "error")
          /\ UNCHANGED <<rUpStatus, rUpBody>>
       \/ \E status \in UpstreamStatuses, body \in UpstreamBodies :
             /\ rUpStatus' = status
             /\ rUpBody' = body
             /\ rPc' = "await_json"
             /\ UNCHANGED <<rStatus, rBody>>
    /\ UNCHANGED <<rMethod, rJson, rPath, rKey, rInner, rSent, rForwarded, notProxy>>

\* `await response.json()` settles: a body that is no JSON throws to the
\* catch block; otherwise !response.ok gives the error envelope with the
\* upstream status and a 2xx answer gives json(responseData).
ProxyUpstreamBody ==
    /\ rPc = "await_json"
    /\ IF rUpBody = "not_json"
       THEN Respond(500, "error")
       ELSE IF ~Ok2xx(rUpStatus)
       THEN Respond(rUpStatus, "error")
       ELSE Respond(200, "upstream")
    /\ UNCHANGED <<rMethod, rJson, rPath, rKey, rInner, rSent, rForwarded, rUpStatus, rUpBody,
                   notProxy>>

ProxyInit ==
    /\ rMethod \in Methods
    /\ rJson \in BOOLEAN
    /\ rPath \in BOOLEAN
    /\ rKey \in BOOLEAN
    /\ rInner \in InnerMethods
    /\ rSent = "none"
    /\ rPc = "idle"
    /\ rForwarded = 0
    /\ rUpStatus = 0
    /\ rUpBody = "none"
    /\ rStatus = 0
    /\ rBody = "none"

ProxyIdle ==
    /\ rMethod = "POST"
    /\ rJson = TRUE
    /\ rPath = TRUE
    /\ rKey = TRUE
    /\ rInner = "absent"
    /\ rSent = "none"
    /\ rPc = "idle"
    /\ rForwarded = 0
    /\ rUpStatus = 0
    /\ rUpBody = "none"
    /\ rStatus = 0
    /\ rBody = "none"

ProxyNext ==
    \/ ProxyReceive
    \/ ProxyBodyParsed
    \/ ProxyFetchSettled
    \/ ProxyUpstreamBody

----------------------------------------------------------------------------
(* LLM database endpoint (api.llm-database.ts)                             *)

\* Requests handled in one behaviour.
MaxRequests == 2

\* "other" stands for any action string the switch does not know.
LlmActions == {"get_capabilities", "set_context", "get_context", "get_schema",
               "execute_query", "execute_operation", "other"}
ServiceActions == {"check_connection", "list_tables", "create_table", "execute", "other"}

DbActions(variant) == IF variant = "llm" THEN LlmActions ELSE ServiceActions

\* return json(..., { status })
DbRespond(status) ==
    /\ dPc' = "done"
    /\ dStatus' = status

\* A helper of the database layer runs: with a stored config it queries the
\* remote database, without one its client constructor throws and the helper
\* catches that.
DbHelperRuns(n) == dRemote' = IF dConfig THEN dRemote + n ELSE dRemote

\* A request arrives. What the credential store holds and how old the
\* stored context is belong to the moment the request arrives.
DbApiArrives(method, isJson, act, param, cfg, aged) ==
    /\ dPc \in {"idle", "done"}
    /\ dRequests < MaxRequests
    /\ dRequests' = dRequests + 1
    /\ dMethod' = method
    /\ dJson' = isJson
    /\ dAction' = act
    /\ dParam' = param
    /\ dConfig' = cfg
    /\ dAged' = aged
    /\ dRemote' = 0
    /\ dConnected' = FALSE

\* llm variant, action(): the method test, then `await request.json()`.
LlmApiReceive ==
    /\ dVariant = "llm"
    /\ \E method \in Methods, isJson \in BOOLEAN, act \in LlmActions, param \in BOOLEAN,
          cfg \in BOOLEAN, aged \in BOOLEAN :
          /\ DbApiArrives(method, isJson, act, param, cfg, aged)
          /\ IF method # "POST" THEN DbRespond(405)
             ELSE dPc' = "await_body" /\ dStatus' = 0
    /\ UNCHANGED <<dVariant, dCtx, notDbApi>>

\* if (validatedContext?.isAccessible) in getDatabaseContext
StoredContextUsable(ctx, cfg) == ctx = "accessible"

\* llm variant: the body arrived, `await getDatabaseContext()`.
\* getStoredDatabaseContext revalidates a stored context older than five
\* minutes; an accessible stored context answers connected without a look at
\* the config; otherwise no config means not connected, and with a config
\* the schema is read and access validated (`acc`), the result being stored
\* when accessible.
LlmApiContext ==
    /\ dVariant = "llm"
    /\ dPc = "await_body"
    /\ IF ~dJson
       THEN DbRespond(500) /\ UNCHANGED <<dCtx, dConnected, dRemote>>
       ELSE \E reacc \in BOOLEAN, acc \in BOOLEAN :
              LET revalidate == dCtx # "none" /\ dAged
                  ctx1 == IF revalidate
                          THEN (IF dConfig /\ reacc THEN "accessible" ELSE "inaccessible")
                          ELSE dCtx
                  sent1 == IF revalidate /\ dConfig THEN 1 ELSE 0
              IN  /\ revalidate \/ reacc
                  /\ dPc' = "have_context"
                  /\ dStatus' = 0
                  /\ IF StoredContextUsable(ctx1, dConfig)
                     THEN /\ acc
                          /\ dConnected' = TRUE
                          /\ dCtx' = ctx1
                          /\ dRemote' = dRemote + sent1
                     ELSE IF ~dConfig
                     THEN /\ acc
                          /\ dConnected' = FALSE
                          /\ dCtx' = ctx1
                          /\ dRemote' = dRemote + sent1
                     ELSE /\ dConnected' = acc
                          /\ dCtx' = IF acc THEN "accessible" ELSE ctx1
                          /\ dRemote' = dRemote + sent1 + 2
    /\ UNCHANGED <<dVariant, dMethod, dJson, dAction, dParam, dConfig, dAged, dRequests,
                   notDbApi>>

\* llm variant: the two actions served without a connection, the 503 test
\* and the switch.
LlmApiDispatch ==
    /\ dVariant = "llm"
    /\ dPc = "have_context"
    /\ IF dAction = "get_capabilities"
       THEN DbRespond(200) /\ DbHelperRuns(1)
       ELSE IF dAction = "set_context" /\ dParam
       THEN DbRespond(200) /\ dRemote' = dRemote
       ELSE IF ~dConnected
       THEN DbRespond(503) /\ dRemote' = dRemote
       ELSE IF dAction = "get_context"
       THEN DbRespond(200) /\ dRemote' = dRemote
       ELSE IF dAction = "get_schema"
       THEN DbRespond(200) /\ DbHelperRuns(1)
       ELSE IF dAction \in {"execute_query", "execute_operation"}
       THEN IF ~dParam
            THEN DbRespond(400) /\ dRemote' = dRemote
            ELSE DbRespond(200) /\ DbHelperRuns(1)
       ELSE DbRespond(400) /\ dRemote' = dRemote
    /\ UNCHANGED <<dVariant, dMethod, dJson, dAction, dParam, dConfig, dAged, dCtx,
                   dConnected, dRequests, notDbApi>>

\* service variant, action(): the config test, then `await request.json()`.
ServiceApiReceive ==
    /\ dVariant = "service"
    /\ \E method \in Methods, isJson \in BOOLEAN, act \in ServiceActions, param \in BOOLEAN,
          cfg \in BOOLEAN :
          /\ DbApiArrives(method, isJson, act, param, cfg, FALSE)
          /\ IF ~cfg THEN DbRespond(400)
             ELSE dPc' = "await_body" /\ dStatus' = 0
    /\ UNCHANGED <<dVariant, dCtx, notDbApi>>

\* service variant: the body arrived, the switch.
ServiceApiDispatch ==
    /\ dVariant = "service"
    /\ dPc = "await_body"
    /\ IF ~dJson
       THEN DbRespond(500) /\ dRemote' = dRemote
       ELSE IF dAction \in {"check_connection", "list_tables"}
       THEN DbRespond(200) /\ DbHelperRuns(1)
       ELSE IF dAction \in {"create_table", "execute"}
       THEN IF ~dParam
            THEN DbRespond(400) /\ dRemote' = dRemote
            ELSE DbRespond(200) /\ DbHelperRuns(1)
       ELSE DbRespond(400) /\ dRemote' = dRemote
    /\ UNCHANGED <<dVariant, dMethod, dJson, dAction, dParam, dConfig, dAged, dCtx,
                   dConnected, dRequests, notDbApi>>

DbApiInit ==
    /\ dVariant \in {"llm", "service"}
    /\ dMethod = "POST"
    /\ dJson = TRUE
    /\ dAction = "other"
    /\ dParam = FALSE
    /\ dConfig = FALSE
    /\ dAged = FALSE
    /\ dCtx = "none"
    /\ dConnected = FALSE
    /\ dPc = "idle"
    /\ dStatus = 0
    /\ dRemote = 0
    /\ dRequests = 0

DbApiIdle ==
    /\ dVariant = "llm"
    /\ dMethod = "POST"
    /\ dJson = TRUE
    /\ dAction = "other"
    /\ dParam = FALSE
    /\ dConfig = FALSE
    /\ dAged = FALSE
    /\ dCtx = "none"
    /\ dConnected = FALSE
    /\ dPc = "idle"
    /\ dStatus = 0
    /\ dRemote = 0
    /\ dRequests = 0

DbApiNext ==
    \/ LlmApiReceive
    \/ LlmApiContext
    \/ LlmApiDispatch
    \/ ServiceApiReceive
    \/ ServiceApiDispatch

----------------------------------------------------------------------------
(* Credential store (supabase.ts, management.ts, encryption.ts)            *)

\* Store operations in one behaviour.
MaxOps == 4

SUPABASE_CONFIG_KEY == "bolt_supabase_config"
MANAGEMENT_KEY_STORAGE == "supabase-management-key"
OAUTH_CREDENTIALS_STORAGE == "supabase-oauth-credentials"
StorageKeys == {SUPABASE_CONFIG_KEY, MANAGEMENT_KEY_STORAGE, OAUTH_CREDENTIALS_STORAGE}

\* charCodeAt for the characters the strings below are written with
\* (UTF-16 code units; e' is U+00E9, o" is U+0151).
CharCode(c) ==
    CASE c = "h" -> 104 [] c = "t" -> 116 [] c = "p" -> 112 [] c = "s" -> 115
      [] c = ":" -> 58  [] c = "/" -> 47  [] c = "." -> 46  [] c = "a" -> 97
      [] c = "b" -> 98  [] c = "u" -> 117 [] c = "e" -> 101 [] c = "c" -> 99
      [] c = "o" -> 111 [] c = "k" -> 107 [] c = "q" -> 113 [] c = "1" -> 49
      [] c = "0" -> 48  [] c = "e'" -> 233 [] c = "o\"" -> 337

\* A string as the sequence of its code units.
Codes(str) == [i \in DOMAIN str |-> CharCode(str[i])]

\* The code unit of the double quote, which ends a string in JSON text.
Quote == 34

Https == Codes(<<"h", "t", "t", "p", "s", ":", "/", "/">>)
HostedDomain == Codes(<<".", "s", "u", "p", "a", "b", "a", "s", "e", ".", "c", "o">>)

\* /\.supabase\.co$/ of projectUrlSchema
EndsInHostedDomain(url) ==
    /\ Len(url) >= Len(HostedDomain)
    /\ SubSeq(url, Len(url) - Len(HostedDomain) + 1, Len(url)) = HostedDomain

\* `https://${status.ref}.supabase.co`
HostedUrl(ref) == Https \o ref \o HostedDomain

\* What a user can type into the Project URL and API Key fields: nothing, a
\* hosted project, a self-hosted one, and names with a letter above U+007F
\* and above U+00FF.
TypedUrls ==
    { <<>>,
      HostedUrl(Codes(<<"a">>)),
      Https \o Codes(<<"a", ".", "c", "o">>),
      HostedUrl(Codes(<<"e'">>)),
      HostedUrl(Codes(<<"o\"">>)) }
TypedKeys == { <<>>, Codes(<<"k">>), Codes(<<"q">>) }

CONFIG_VERSION == Codes(<<"1", ".", "0", ".", "0">>)

\* JSON.stringify(configToStore): the members one after the other, each
\* string ended by a double quote (the strings drawn hold none, so nothing
\* is escaped).
Stringify(config) ==
    config.projectUrl \o <<Quote>> \o config.apiKey \o <<Quote>> \o CONFIG_VERSION

\* JSON.parse(decryptedConfig)
ParseConfig(text) ==
    LET q1 == CHOOSE i \in 1..Len(text) :
                  text[i] = Quote /\ \A j \in 1..(i - 1) : text[j] # Quote
        q2 == CHOOSE i \in (q1 + 1)..Len(text) :
                  text[i] = Quote /\ \A j \in (q1 + 1)..(i - 1) : text[j] # Quote
    IN  [projectUrl |-> SubSeq(text, 1, q1 - 1),
         apiKey |-> SubSeq(text, q1 + 1, q2 - 1),
         version |-> SubSeq(text, q2 + 1, Len(text))]

ENCRYPTION_KEY == <<98, 111, 108, 116, 95, 101, 110, 99, 114, 121, 112, 116, 105, 111, 110,
                    95, 107, 101, 121>>

RECURSIVE Xor(_, _)
\* a ^ b
Xor(a, b) ==
    IF a = 0 /\ b = 0 THEN 0
    ELSE (((a % 2) + (b % 2)) % 2) + 2 * Xor(a \div 2, b \div 2)

\* The loop of encrypt and of decrypt: text.charCodeAt(i) ^ key.charCodeAt(i % key.length)
XorWithKey(text) ==
    [i \in DOMAIN text |-> Xor(text[i], ENCRYPTION_KEY[((i - 1) % Len(ENCRYPTION_KEY)) + 1])]

\* btoa throws InvalidCharacterError on a code unit above 0xFF
BtoaThrows(bin) == \E i \in DOMAIN bin : bin[i] > 255

RECURSIVE Btoa(_)
\* btoa: three bytes become four base64 digits, written here as their
\* values 0..63, with 64 for the padding sign.
Btoa(bin) ==
    IF bin = <<>> THEN <<>>
    ELSE IF Len(bin) = 1
    THEN <<bin[1] \div 4, (bin[1] % 4) * 16, 64, 64>>
    ELSE IF Len(bin) = 2
    THEN <<bin[1] \div 4, ((bin[1] % 4) * 16) + (bin[2] \div 16), (bin[2] % 16) * 4, 64>>
    ELSE <<bin[1] \div 4, ((bin[1] % 4) * 16) + (bin[2] \div 16),
           ((bin[2] % 16) * 4) + (bin[3] \div 64), bin[3] % 64>>
         \o Btoa(SubSeq(bin, 4, Len(bin)))

RECURSIVE Atob(_)
\* atob: four base64 digits become up to three bytes
Atob(b64) ==
    IF b64 = <<>> THEN <<>>
    ELSE LET d == SubSeq(b64, 1, 4)
             b1 == (d[1] * 4) + (d[2] \div 16)
             b2 == ((d[2] % 16) * 16) + (d[3] \div 4)
             b3 == ((d[3] % 4) * 64) + d[4]
         IN  (IF d[3] = 64 THEN <<b1>>
              ELSE IF d[4] = 64 THEN <<b1, b2>>
              ELSE <<b1, b2, b3>>)
             \o Atob(SubSeq(b64, 5, Len(b64)))

\* encrypt(text), defined where btoa does not throw
Encrypt(text) == Btoa(XorWithKey(text))

\* decrypt(encryptedText)
Decrypt(b64) == XorWithKey(Atob(b64))

RemoveItemClearsAll(store, key) == [k \in StorageKeys |-> <<>>]

\* localStorage.removeItem(key)
RemoveItem(store, key) == [store EXCEPT ![key] = <<>>]

\* localStorage.setItem(key, value)
SetItem(store, key, value) == [store EXCEPT ![key] = <<value>>]

\* One more store operation of the given name.
StoreOp(name) ==
    /\ sOps < MaxOps
    /\ sOps' = sOps + 1
    /\ sOp' = name

\* setSupabaseConfig(config): encrypt throws on a code unit above 0xFF, the
\* catch block rethrows and nothing is written.
SetSupabaseConfig(config) ==
    /\ sLastSet' = <<config>>
    /\ IF BtoaThrows(XorWithKey(Stringify(config)))
       THEN UNCHANGED <<ls, sLastStored>>
       ELSE /\ ls' = SetItem(ls, SUPABASE_CONFIG_KEY, Encrypt(Stringify(config)))
            /\ sLastStored' = <<config>>

\* handleConnect: both fields filled in, verifySupabaseConnection answered
\* true (`verified`; it probes the server behind the URL, whatever its
\* domain), setupInitialStructure is best effort, then the config is saved.
HandleConnect ==
    /\ StoreOp("connect")
    /\ \E url \in TypedUrls, key \in TypedKeys, verified \in BOOLEAN :
          IF url = <<>> \/ key = <<>> \/ ~verified
          THEN UNCHANGED <<ls, sLastSet, sLastStored>>
          ELSE SetSupabaseConfig([projectUrl |-> url, apiKey |-> key])
    /\ UNCHANGED <<sGot, notStore>>

\* handleCreateProject, its last step: the config of the new project is saved.
CreateProjectSave ==
    /\ StoreOp("create")
    /\ \E ref \in {Codes(<<"a">>), Codes(<<"b">>)} :
          SetSupabaseConfig([projectUrl |-> HostedUrl(ref), apiKey |-> Codes(<<"k">>)])
    /\ UNCHANGED <<sGot, notStore>>

\* handleDisconnect: clearSupabaseConfig()
HandleDisconnect ==
    /\ StoreOp("disconnect")
    /\ ls' = RemoveItem(ls, SUPABASE_CONFIG_KEY)
    /\ sLastSet' = <<>>
    /\ sLastStored' = <<>>
    /\ UNCHANGED <<sGot, notStore>>

\* handleSave of the management key tab: setManagementKey(trimmedKey) when
\* the key is not empty and has the sbp_ format (`valid`).
HandleSave ==
    /\ StoreOp("save")
    /\ \E key \in {"sbp_1", "sbp_2"}, valid \in BOOLEAN :
          ls' = IF valid THEN SetItem(ls, MANAGEMENT_KEY_STORAGE, key) ELSE ls
    /\ UNCHANGED <<sLastSet, sLastStored, sGot, notStore>>

\* The OAuth flow stores the client credentials it was given.
StoreOAuthCredentials ==
    /\ StoreOp("oauth")
    /\ ls' = SetItem(ls, OAUTH_CREDENTIALS_STORAGE, "client")
    /\ UNCHANGED <<sLastSet, sLastStored, sGot, notStore>>

\* handleRemove: clearManagementKey(), clearStoredOAuthCredentials()
HandleRemove ==
    /\ StoreOp("remove")
    /\ ls' = RemoveItem(RemoveItem(ls, MANAGEMENT_KEY_STORAGE), OAUTH_CREDENTIALS_STORAGE)
    /\ UNCHANGED <<sLastSet, sLastStored, sGot, notStore>>

\* getSupabaseConfig(): null without an item; an item of another version is
\* cleared; otherwise the two fields of the decrypted, parsed item.
GetSupabaseConfig ==
    /\ StoreOp("get")
    /\ IF ls[SUPABASE_CONFIG_KEY] = <<>>
       THEN sGot' = <<>> /\ ls' = ls
       ELSE LET config == ParseConfig(Decrypt(ls[SUPABASE_CONFIG_KEY][1]))
            IN  IF config.version # CONFIG_VERSION
                THEN sGot' = <<>> /\ ls' = RemoveItem(ls, SUPABASE_CONFIG_KEY)
                ELSE /\ sGot' = <<[projectUrl |-> config.projectUrl, apiKey |-> config.apiKey]>>
                     /\ ls' = ls
    /\ UNCHANGED <<sLastSet, sLastStored, notStore>>

StoreInit ==
    /\ ls = [k \in StorageKeys |-> <<>>]
    /\ sOp = "none"
    /\ sLastSet = <<>>
    /\ sLastStored = <<>>
    /\ sGot = <<>>
    /\ sOps = 0

StoreNext ==
    \/ HandleConnect
    \/ CreateProjectSave
    \/ HandleDisconnect
    \/ HandleSave
    \/ StoreOAuthCredentials
    \/ HandleRemove
    \/ GetSupabaseConfig

----------------------------------------------------------------------------
(* Manual connect flow (handleConnect) and schema bootstrap                *)
(* (setupInitialStructure)                                                 *)

\* Invocations of the two flows tried.
MaxConnects == 2

\* What the user can have typed in the two fields.
FieldUrls == {"", "https://a.supabase.co", "https://b.supabase.co"}
FieldKeys == {"", "anon-key"}

\* A config saved by an earlier session.
EarlierConfig == [projectUrl |-> "https://old.supabase.co", apiKey |-> "old-key"]
\* const config = { projectUrl: `https://${status.ref}.supabase.co`, apiKey: status.api.anon_key }
CreatedConfig == [projectUrl |-> "https://new.supabase.co", apiKey |-> "new-anon-key"]

\* What an awaited call of the bootstrap can come back with: no error, an
\* error with code 42P01 (relation does not exist), any other error, or a
\* rejection.
StepOutcomes == {"ok", "42P01", "error", "throw"}

\* The awaited calls of the two variants of setupInitialStructure.
BootstrapSteps == {"probe", "lock_insert", "sentinel", "exec_check", "exec_create",
                   "schema_fn", "table_fn", "table_alt", "execute_sql"}

\* Where setupInitialStructure of setup.ts goes after an awaited call came
\* back with `out`: every inner try has a catch that only logs, the function
\* block's catch (funcError) ends the function, nothing is rethrown.
AfterStep(step, out) ==
    CASE step = "wait5" -> "probe"
      [] step = "probe" -> IF out = "42P01" THEN "lock_insert" ELSE "sentinel"
      [] step = "lock_insert" -> "sentinel"
      [] step = "sentinel" -> "exec_check"
      [] step = "exec_check" ->
            IF out = "ok" THEN "schema_fn"
            ELSE IF out = "throw" THEN "resolved" ELSE "exec_create"
      [] step = "exec_create" -> "schema_fn"
      [] step = "schema_fn" -> IF out = "throw" THEN "resolved" ELSE "table_fn"
      [] step = "table_fn" -> IF out \in {"42P01", "error"} THEN "table_alt" ELSE "resolved"
      [] step = "table_alt" -> "resolved"

\* setupInitialStructure of part_012: `if (error) throw error` inside the try,
\* and the catch throws 'Failed to set up database structure'.
AfterExecuteSql(out) == IF out = "ok" THEN "resolved" ELSE "threw"

VerifyPassedUnlessThrown(answer) == answer # "threw"

\* if (!isValid) { ...; return; }
VerifyPassed(answer) == answer = "true"

\* The user types in the dialog; the fields stay editable while a flow runs.
EditFields ==
    /\ \E url \in FieldUrls, key \in FieldKeys :
          /\ <<url, key>> # <<cUrl, cKey>>
          /\ cUrl' = url
          /\ cKey' = key
    /\ UNCHANGED <<cCaller, cVariant, cPc, cConfig, cVerified, cStepFailed, cSetup,
                   cSaveCalled, cSlot, cSlotBefore, cRuns, notConnect>>

\* handleConnect up to `await verifySupabaseConnection(config)`.
HandleConnectCall ==
    /\ cPc \in {"idle", "returned", "done", "failed"}
    /\ cRuns < MaxConnects
    /\ cRuns' = cRuns + 1
    /\ cCaller' = "connect"
    /\ cSlotBefore' = cSlot
    /\ cStepFailed' = FALSE
    /\ cSetup' = "none"
    /\ cSaveCalled' = FALSE
    /\ cVerified' = {}
    /\ IF cUrl = "" \/ cKey = ""
       THEN cPc' = "returned" /\ cConfig' = <<>>
       ELSE cPc' = "verify" /\ cConfig' = <<[projectUrl |-> cUrl, apiKey |-> cKey]>>
    /\ UNCHANGED <<cUrl, cKey, cVariant, cSlot, notConnect>>

\* verifySupabaseConnection settles: false returns, a rejection goes to the
\* outer catch, true goes on to `await setupInitialStructure(config)`.
ConnectVerified ==
    /\ cPc = "verify"
    /\ \E answer \in {"true", "false", "threw"} :
          /\ cVerified' = IF answer = "true" THEN cVerified \cup {cConfig[1]} ELSE cVerified
          /\ cPc' = IF VerifyPassed(answer)
                    THEN (IF cVariant = "current" THEN "wait5" ELSE "execute_sql")
                    ELSE IF answer = "threw" THEN "failed" ELSE "returned"
    /\ UNCHANGED <<cUrl, cKey, cCaller, cVariant, cConfig, cStepFailed, cSetup,
                   cSaveCalled, cSlot, cSlotBefore, cRuns, notConnect>>

\* handleCreateProject after the poll resolved and the 2 s wait:
\* `await setupInitialStructure(config)` with the new project's config.
CreateReachesSetup ==
    /\ cPc \in {"idle", "returned", "done", "failed"}
    /\ cRuns < MaxConnects
    /\ cRuns' = cRuns + 1
    /\ cCaller' = "create"
    /\ cSlotBefore' = cSlot
    /\ cStepFailed' = FALSE
    /\ cSetup' = "none"
    /\ cSaveCalled' = FALSE
    /\ cVerified' = {}
    /\ cConfig' = <<CreatedConfig>>
    /\ cPc' = IF cVariant = "current" THEN "wait5" ELSE "execute_sql"
    /\ UNCHANGED <<cUrl, cKey, cVariant, cSlot, notConnect>>

\* The 5 s timer at the head of setupInitialStructure (setup.ts) fires.
SetupWaitDone ==
    /\ cPc = "wait5"
    /\ cPc' = AfterStep("wait5", "ok")
    /\ UNCHANGED <<cUrl, cKey, cCaller, cVariant, cConfig, cVerified, cStepFailed,
                   cSetup, cSaveCalled, cSlot, cSlotBefore, cRuns, notConnect>>

\* An awaited call of the bootstrap comes back.
SetupStepReturn ==
    /\ cPc \in BootstrapSteps
    /\ \E out \in StepOutcomes :
          LET next == IF cPc = "execute_sql" THEN AfterExecuteSql(out)
                      ELSE AfterStep(cPc, out)
          IN /\ cStepFailed' = (cStepFailed \/ out # "ok")
             /\ IF next \in {"resolved", "threw"}
                THEN cSetup' = next /\ cPc' = "after_setup"
                ELSE cSetup' = cSetup /\ cPc' = next
    /\ UNCHANGED <<cUrl, cKey, cCaller, cVariant, cConfig, cVerified, cSaveCalled,
                   cSlot, cSlotBefore, cRuns, notConnect>>

\* setSupabaseConfig(config): writes the slot, or throws when the encoding
\* fails (`saved` false) and the caller's catch shows the error.
SaveConfig(saved) ==
    /\ cSaveCalled' = TRUE
    /\ cSlot' = IF saved THEN cConfig ELSE cSlot
    /\ cPc' = IF saved THEN "done" ELSE "failed"

\* handleConnect resumes: a rejection of setupInitialStructure is caught and
\* logged, the config is saved either way.
ConnectResume ==
    /\ cPc = "after_setup"
    /\ cCaller = "connect"
    /\ \E saved \in BOOLEAN : SaveConfig(saved)
    /\ UNCHANGED <<cUrl, cKey, cCaller, cVariant, cConfig, cVerified, cStepFailed,
                   cSetup, cSlotBefore, cRuns, notConnect>>

\* handleCreateProject resumes: the await is not guarded, a rejection goes to
\* the flow's catch block and nothing is saved.
CreateResume ==
    /\ cPc = "after_setup"
    /\ cCaller = "create"
    /\ IF cSetup = "threw"
       THEN cPc' = "failed" /\ UNCHANGED <<cSaveCalled, cSlot>>
       ELSE \E saved \in BOOLEAN : SaveConfig(saved)
    /\ UNCHANGED <<cUrl, cKey, cCaller, cVariant, cConfig, cVerified, cStepFailed,
                   cSetup, cSlotBefore, cRuns, notConnect>>

ConnectIdle ==
    /\ cUrl = ""
    /\ cKey = ""
    /\ cCaller = "none"
    /\ cVariant = "current"
    /\ cPc = "idle"
    /\ cConfig = <<>>
    /\ cVerified = {}
    /\ cStepFailed = FALSE
    /\ cSetup = "none"
    /\ cSaveCalled = FALSE
    /\ cSlot = <<>>
    /\ cSlotBefore = <<>>
    /\ cRuns = 0

ConnectInit ==
    /\ cUrl \in FieldUrls
    /\ cKey \in FieldKeys
    /\ cCaller = "none"
    /\ cVariant \in {"current", "throwing"}
    /\ cPc = "idle"
    /\ cConfig = <<>>
    /\ cVerified = {}
    /\ cStepFailed = FALSE
    /\ cSetup = "none"
    /\ cSaveCalled = FALSE
    /\ cSlot \in {<<>>, <<EarlierConfig>>}
    /\ cSlotBefore = cSlot
    /\ cRuns = 0

ConnectNext ==
    \/ EditFields
    \/ HandleConnectCall
    \/ ConnectVerified
    \/ CreateReachesSetup
    \/ SetupWaitDone
    \/ SetupStepReturn
    \/ ConnectResume
    \/ CreateResume

----------------------------------------------------------------------------
(* Table SQL generator (generateTableSQL)                                  *)

\* Most columns of a table definition tried.
MaxColumns == 2

\* Strings are sequences of lexical tokens: a template literal puts the
\* tokens of every interpolated string, unquoted, between its own.
ColNames == {"id", "a"}
ColTypes == {"uuid", "text"}
\* col.default / col.defaultValue: undefined (<<>>), `0`, and a string that
\* is more than one expression.
DefaultStrings == {<<>>, <<"0">>, <<"0", "NOT", "NULL">>}

\* ColumnDefinition (types.ts) has nullable?: boolean; the zod type has a boolean.
ColumnsOf(variant) ==
    [name : ColNames, type : ColTypes,
     nullable : IF variant = "interface" THEN {"true", "false", "undefined"}
                ELSE {"true", "false"},
     unique : BOOLEAN,
     primaryKey : IF variant = "interface" THEN {FALSE} ELSE BOOLEAN,
     default : DefaultStrings]

\* table.constraints of the interface variant: none, or a primary key.
ConstraintLists == {<<>>, << <<"PRIMARY", "KEY", "(", "id", ")">> >>}

TablesOf(variant) ==
    [name : {"t"},
     columns : UNION {[1..n -> ColumnsOf(variant)] : n \in 0..MaxColumns},
     constraints : IF variant = "interface" THEN ConstraintLists ELSE {<<>>}]

\* parts.join(sep)
RECURSIVE Join(_, _)
Join(parts, sep) ==
    IF parts = <<>> THEN <<>>
    ELSE IF Len(parts) = 1 THEN parts[1]
    ELSE parts[1] \o sep \o Join(Tail(parts), sep)

\* The .map callback of the interface variant (schema.ts 76-92).
ColumnDef(col) ==
    <<col.name, col.type>>
        \o (IF col.nullable = "false" THEN <<"NOT", "NULL">> ELSE <<>>)
        \o (IF col.default # <<>> THEN <<"DEFAULT">> \o col.default ELSE <<>>)
        \o (IF col.unique THEN <<"UNIQUE">> ELSE <<>>)

\* The .map callback of the zod variant (schema.ts 186-198), no references.
ZodColumnDef(col) ==
    <<col.name, col.type>>
        \o (IF col.primaryKey THEN <<"PRIMARY", "KEY">> ELSE <<>>)
        \o (IF col.nullable # "true" THEN <<"NOT", "NULL">> ELSE <<>>)
        \o (IF col.unique THEN <<"UNIQUE">> ELSE <<>>)
        \o (IF col.default # <<>> THEN <<"DEFAULT">> \o col.default ELSE <<>>)

\* generateTableSQL of the interface variant, without indexes.
GenerateTableSQL(table) ==
    <<"CREATE", "TABLE", "IF", "NOT", "EXISTS", table.name, "(">>
        \o Join([i \in 1..Len(table.columns) |-> ColumnDef(table.columns[i])], <<",">>)
        \o (IF table.constraints # <<>>
            THEN <<",">> \o Join(table.constraints, <<",">>)
            ELSE <<>>)
        \o <<")", ";">>

\* One line of the header comment: `- ${col.name} (${col.type}, ...)`
ZodCommentLine(col) ==
    <<"-", col.name, "(", col.type>>
        \o (IF col.nullable = "true" THEN <<",", "nullable">> ELSE <<>>)
        \o (IF col.unique THEN <<",", "unique">> ELSE <<>>)
        \o (IF col.primaryKey THEN <<",", "primary", "key">> ELSE <<>>)
        \o <<")">>

\* generateTableSQL of the zod variant with enableRLS and no policies: the
\* header comment, the CREATE TABLE clause, the ALTER TABLE clause.
ZodGenerateTableSQL(table) ==
    <<"/*", "#", "Create", table.name, "table">>
        \o Join([i \in 1..Len(table.columns) |-> ZodCommentLine(table.columns[i])], <<>>)
        \o <<"*/">>
        \o <<"CREATE", "TABLE", "IF", "NOT", "EXISTS", table.name, "(">>
        \o Join([i \in 1..Len(table.columns) |-> ZodColumnDef(table.columns[i])], <<",">>)
        \o <<")", ";">>
        \o <<"ALTER", "TABLE", table.name, "ENABLE", "ROW", "LEVEL", "SECURITY", ";">>

\* ---- reading the CREATE TABLE clause back

\* The tokens after the first `bound` token, <<>> when there is none.
RECURSIVE After(_, _)
After(toks, bound) ==
    IF toks = <<>> THEN <<>>
    ELSE IF toks[1] = bound THEN Tail(toks)
    ELSE After(Tail(toks), bound)

\* The clause starts at the first CREATE outside the header comment.
ClauseTokens(sql) ==
    LET code == IF sql # <<>> /\ sql[1] = "/*" THEN After(sql, "*/") ELSE sql
    IN After(code, "(")

\* The items of the column list: cut at the commas outside parentheses, up
\* to the parenthesis that closes the list.
RECURSIVE Items(_, _, _, _)
Items(toks, depth, item, done) ==
    IF toks = <<>> THEN Append(done, item)
    ELSE LET t == toks[1] IN
         IF t = ")" /\ depth = 0 THEN Append(done, item)
         ELSE IF t = "," /\ depth = 0 THEN Items(Tail(toks), 0, <<>>, Append(done, item))
         ELSE Items(Tail(toks),
                    IF t = "(" THEN depth + 1 ELSE IF t = ")" THEN depth - 1 ELSE depth,
                    Append(item, t), done)

HasPair(toks, a, b) == \E i \in 1..(Len(toks) - 1) : toks[i] = a /\ toks[i + 1] = b

TableConstraintWords == {"PRIMARY", "UNIQUE", "CHECK", "FOREIGN", "CONSTRAINT"}

\* Columns named by a table-level PRIMARY KEY ( ... ) item.
KeyColumns(items) ==
    UNION {{items[i][k] : k \in 4..Len(items[i])} :
              i \in {j \in 1..Len(items) :
                        Len(items[j]) >= 2 /\ items[j][1] = "PRIMARY"}} \ {")", ","}

\* The (name, type, nullable) triples the clause declares: a column is not
\* nullable when it carries NOT NULL or is (part of) the primary key.
ParseCreateTable(sql) ==
    LET items == Items(ClauseTokens(sql), 0, <<>>, <<>>)
        cols == {i \in 1..Len(items) :
                    Len(items[i]) >= 2 /\ items[i][1] \notin TableConstraintWords}
        keys == KeyColumns(items)
    IN {[name |-> items[i][1],
         type |-> items[i][2],
         nullable |-> ~(\/ HasPair(items[i], "NOT", "NULL")
                        \/ HasPair(items[i], "PRIMARY", "KEY")
                        \/ items[i][1] \in keys)] : i \in cols}

\* The triples of the definition; a column without `nullable` is nullable.
DefinedColumns(table) ==
    {[name |-> table.columns[i].name,
      type |-> table.columns[i].type,
      nullable |-> table.columns[i].nullable # "false"] : i \in 1..Len(table.columns)}

GenerateSql ==
    /\ gPc = "idle"
    /\ gPc' = "generated"
    /\ gSql' = IF gVariant = "interface" THEN GenerateTableSQL(gTable)
               ELSE ZodGenerateTableSQL(gTable)
    /\ UNCHANGED <<gVariant, gTable, gParsed, notSchema>>

ParseSql ==
    /\ gPc = "generated"
    /\ gPc' = "parsed"
    /\ gParsed' = ParseCreateTable(gSql)
    /\ UNCHANGED <<gVariant, gTable, gSql, notSchema>>

SchemaIdle ==
    /\ gVariant = "interface"
    /\ gTable = [name |-> "t", columns |-> <<>>, constraints |-> <<>>]
    /\ gPc = "idle"
    /\ gSql = <<>>
    /\ gParsed = {}

SchemaInit ==
    /\ gVariant \in {"interface", "zod"}
    /\ gTable \in TablesOf(gVariant)
    /\ gPc = "idle"
    /\ gSql = <<>>
    /\ gParsed = {}

SchemaNext ==
    \/ GenerateSql
    \/ ParseSql

----------------------------------------------------------------------------
(* Remote-client singleton and database context (llm-supabase.ts)          *)

\* Calls of the module's entry points tried in one behaviour.
MaxCalls == 4

\* The projects a ConnectionConfig can name; JSON.stringify(config) is one
\* string per project.
Projects == {"A", "B"}

NeedsNewClientOnlyWhenNone(client, last, stored) == client = <<>>

\* !this._client || this._lastConfig !== configString
NeedsNewClient(client, last, stored) == client = <<>> \/ last # stored

\* SupabaseManager.getClient() seen as a function of the store and of the
\* singleton's two fields: what it returns (<<>> when it throws) and the
\* fields afterwards.
ManagerGet(stored, client, last, created) ==
    IF stored = <<>>
    THEN [got |-> <<>>, client |-> client, last |-> last, created |-> created]
    ELSE IF NeedsNewClient(client, last, stored)
    THEN LET new == <<[id |-> created + 1, config |-> stored[1]]>>
         IN [got |-> new, client |-> new, last |-> stored, created |-> created + 1]
    ELSE [got |-> client, client |-> client, last |-> last, created |-> created]

\* The singleton's fields after a getClient() made inside another function.
UseClient(g) ==
    /\ mClient' = g.client
    /\ mLastConfig' = g.last
    /\ mCreated' = g.created

ManagerCall(op) ==
    /\ mOps < MaxCalls
    /\ mOps' = mOps + 1
    /\ mOp' = op

\* setSupabaseConfig(config)
ManagerSetConfig ==
    /\ ManagerCall("set")
    /\ \E p \in Projects : mStored' = <<p>>
    /\ UNCHANGED <<mClient, mLastConfig, mCreated, mGot, mCtx, mPc, mAtCall, mConfig,
                   mResult, notManager>>

\* clearSupabaseConfig()
ManagerClearConfig ==
    /\ ManagerCall("clear")
    /\ mStored' = <<>>
    /\ UNCHANGED <<mClient, mLastConfig, mCreated, mGot, mCtx, mPc, mAtCall, mConfig,
                   mResult, notManager>>

\* SupabaseManager.getInstance().getClient()
GetClient ==
    /\ ManagerCall("getClient")
    /\ LET g == ManagerGet(mStored, mClient, mLastConfig, mCreated)
       IN UseClient(g) /\ mGot' = g.got
    /\ UNCHANGED <<mStored, mCtx, mPc, mAtCall, mConfig, mResult, notManager>>

\* More than 5 minutes pass since storedDatabaseContext.lastValidated.
FiveMinutesPass ==
    /\ mCtx # <<>>
    /\ mCtx[1].fresh
    /\ mCtx' = <<[mCtx[1] EXCEPT !.fresh = FALSE]>>
    /\ UNCHANGED <<mStored, mClient, mLastConfig, mCreated, mOp, mGot, mOps, mPc,
                   mAtCall, mConfig, mResult, notManager>>

Return(connected, projectUrl) ==
    /\ mResult' = <<[connected |-> connected, projectUrl |-> projectUrl]>>
    /\ mPc' = "done"

\* getDatabaseContext from `const config = getSupabaseConfig()` to the await
\* inside getDatabaseSchema(), whose first statement is getClient().
ReadConfig ==
    IF mStored = <<>>
    THEN /\ Return(FALSE, "")
         /\ mConfig' = <<>>
         /\ UNCHANGED <<mClient, mLastConfig, mCreated>>
    ELSE /\ mConfig' = mStored
         /\ mPc' = "schema"
         /\ mResult' = <<>>
         /\ UseClient(ManagerGet(mStored, mClient, mLastConfig, mCreated))

\* getDatabaseContext() is called: getStoredDatabaseContext() returns the
\* stored context as it is while it is younger than 5 minutes, otherwise
\* validateDatabaseAccess() starts with getClient().
GetDatabaseContextCall ==
    /\ mPc \in {"idle", "done"}
    /\ ManagerCall("getDatabaseContext")
    /\ mAtCall' = mStored
    /\ IF mCtx # <<>> /\ mCtx[1].fresh
       THEN IF mCtx[1].accessible
            THEN /\ Return(TRUE, mCtx[1].projectUrl)
                 /\ mConfig' = <<>>
                 /\ UNCHANGED <<mCtx, mClient, mLastConfig, mCreated>>
            ELSE ReadConfig /\ UNCHANGED mCtx
       ELSE IF mCtx # <<>>
       THEN LET g == ManagerGet(mStored, mClient, mLastConfig, mCreated)
            IN IF g.got = <<>>
               THEN /\ mCtx' = <<[mCtx[1] EXCEPT !.accessible = FALSE, !.fresh = TRUE]>>
                    /\ ReadConfig
               ELSE /\ mPc' = "revalidate"
                    /\ mResult' = <<>>
                    /\ UseClient(g)
                    /\ mConfig' = <<>>
                    /\ UNCHANGED mCtx
       ELSE ReadConfig /\ UNCHANGED mCtx
    /\ UNCHANGED <<mStored, mGot, notManager>>

\* The probes of the revalidation come back: the stored context keeps its
\* projectUrl and schema and takes the new isAccessible.
RevalidateReturn ==
    /\ mPc = "revalidate"
    /\ \E accessible \in BOOLEAN :
          /\ mCtx' = <<[mCtx[1] EXCEPT !.accessible = accessible, !.fresh = TRUE]>>
          /\ IF accessible
             THEN /\ Return(TRUE, mCtx[1].projectUrl)
                  /\ UNCHANGED <<mConfig, mClient, mLastConfig, mCreated>>
             ELSE ReadConfig
    /\ UNCHANGED <<mStored, mOp, mGot, mOps, mAtCall, notManager>>

\* getDatabaseSchema() settles: a rejection goes to the catch block, else
\* validateDatabaseAccess() starts with getClient().
SchemaReturn ==
    /\ mPc = "schema"
    /\ \E ok \in BOOLEAN :
          IF ~ok
          THEN Return(FALSE, "") /\ UNCHANGED <<mClient, mLastConfig, mCreated>>
          ELSE LET g == ManagerGet(mStored, mClient, mLastConfig, mCreated)
               IN IF g.got = <<>>
                  THEN /\ Return(FALSE, mConfig[1])
                       /\ UNCHANGED <<mClient, mLastConfig, mCreated>>
                  ELSE /\ mPc' = "validate"
                       /\ mResult' = <<>>
                       /\ UseClient(g)
    /\ UNCHANGED <<mStored, mOp, mGot, mOps, mCtx, mAtCall, mConfig, notManager>>

\* validateDatabaseAccess() of the new connection settles.
ValidateReturn ==
    /\ mPc = "validate"
    /\ \E accessible \in BOOLEAN :
          IF accessible
          THEN /\ mCtx' = <<[projectUrl |-> mConfig[1], accessible |-> TRUE, fresh |-> TRUE]>>
               /\ Return(TRUE, mConfig[1])
          ELSE /\ Return(FALSE, mConfig[1])
               /\ UNCHANGED mCtx
    /\ UNCHANGED <<mStored, mClient, mLastConfig, mCreated, mOp, mGot, mOps, mAtCall,
                   mConfig, notManager>>

ManagerInit ==
    /\ mStored = <<>>
    /\ mClient = <<>>
    /\ mLastConfig = <<>>
    /\ mCreated = 0
    /\ mOp = "none"
    /\ mGot = <<>>
    /\ mOps = 0
    /\ mCtx = <<>>
    /\ mPc = "idle"
    /\ mAtCall = <<>>
    /\ mConfig = <<>>
    /\ mResult = <<>>

ManagerNext ==
    \/ ManagerSetConfig
    \/ ManagerClearConfig
    \/ GetClient
    \/ FiveMinutesPass
    \/ GetDatabaseContextCall
    \/ RevalidateReturn
    \/ SchemaReturn
    \/ ValidateReturn

----------------------------------------------------------------------------
(* Guarded SQL execution (executeSafeSQLQuery in llm-supabase.ts)          *)

\* Pieces the queries handed to executeSafeSQLQuery are put together from.
SafeTokens ==
    { <<"S", "E", "L", "E", "C", "T", " ", "*", " ">>,
      <<"f", "r", "o", "m", " ", "t">>,
      <<"F", "R", "O", "M", " ", "\"", "u", "\"">>,
      <<"f", "r", "o", "m", " ", ";">>,
      <<"u", "p", "d", "a", "t", "e", " ", "t">>,
      <<" ">>,
      <<";">>,
      <<"X", "p", "_", "c", "m", "d", "s", "h", "e", "l", "l">>,
      <<" ", "i", "n", "t", "o", "\n", "o", "u", "t", "f", "i", "l", "e">> }

SafeQueries == {Flatten(ts) : ts \in UNION {[1..n -> SafeTokens] : n \in 0..MaxTokens}}

\* A denylist that only refuses the empty query.
ValidationErrorEmptyOnly(query) ==
    IF Trim(query) = <<>> THEN "Query cannot be empty" ELSE ""

\* The message of the error validateAndSanitizeQuery(query) throws, "" when
\* it returns (the trimmed query).
ValidationError(query) ==
    IF Trim(query) = <<>>
    THEN "Query cannot be empty"
    ELSE IF \E pat \in DangerousPatterns : PatternTest(pat, Trim(query))
    THEN "Query contains potentially harmful patterns"
    ELSE ""

\* String.prototype.toLowerCase
ToLowerCase(str) == [i \in 1..Len(str) |-> Fold(str[i])]

\* String.prototype.startsWith
StartsWith(str, prefix) ==
    /\ Len(str) >= Len(prefix)
    /\ SubSeq(str, 1, Len(prefix)) = prefix

\* getQueryType(query)
GetQueryType(query) ==
    LET normalized == ToLowerCase(Trim(query))
    IN  IF StartsWith(normalized, <<"s", "e", "l", "e", "c", "t">>) THEN "select"
        ELSE IF StartsWith(normalized, <<"i", "n", "s", "e", "r", "t">>) THEN "insert"
        ELSE IF StartsWith(normalized, <<"u", "p", "d", "a", "t", "e">>) THEN "update"
        ELSE IF StartsWith(normalized, <<"d", "e", "l", "e", "t", "e">>) THEN "delete"
        ELSE "other"

RECURSIVE SkipSpace(_, _)
\* The first position from k on that holds no white space.
SkipSpace(str, k) ==
    IF k <= Len(str) /\ IsSpace(str[k]) THEN SkipSpace(str, k + 1) ELSE k

RECURSIVE NameEnd(_, _)
\* The first position from k on that holds white space or a semicolon.
NameEnd(str, k) ==
    IF k <= Len(str) /\ ~IsSpace(str[k]) /\ str[k] # ";" THEN NameEnd(str, k + 1) ELSE k

\* /FROM\s+([^\s;]+)/i matches the string at position j.
FromMatchAt(str, j) ==
    /\ j + 3 <= Len(str)
    /\ ToLowerCase(SubSeq(str, j, j + 3)) = <<"f", "r", "o", "m">>
    /\ SkipSpace(str, j + 4) > j + 4
    /\ NameEnd(str, SkipSpace(str, j + 4)) > SkipSpace(str, j + 4)

\* extractTableName(query): <<>> stands for null and for the empty string,
\* which the caller's `if (tableName)` treats alike.
ExtractTableName(query) ==
    IF \A j \in 1..Len(query) : ~FromMatchAt(query, j)
    THEN <<>>
    ELSE LET j == CHOOSE a \in 1..Len(query) :
                      /\ FromMatchAt(query, a)
                      /\ \A b \in 1..(a - 1) : ~FromMatchAt(query, b)
             k == SkipSpace(query, j + 4)
             fromMatch1 == SubSeq(query, k, NameEnd(query, k) - 1)
             IsQuote(c) == c \in {"\"", "`", "'"}
         IN  Trim(SelectSeq(fromMatch1, LAMBDA c : ~IsQuote(c)))

\* What awaiting a call of the remote client can produce.
RemoteAnswers == {"ok", "error", "throw"}

SafeDone(success, error) ==
    /\ sqPc' = "done"
    /\ sqResult' = <<[success |-> success, error |-> error]>>

\* executeSafeSQLQuery(query), up to its first await (or to its return)
ExecuteSafeSQLQueryCall ==
    /\ sqPc = "idle"
    /\ IF ValidationError(sqQuery) # ""
       THEN SafeDone(FALSE, ValidationError(sqQuery)) /\ UNCHANGED sqCalls
       ELSE IF ~sqHasConfig
       THEN SafeDone(FALSE, "Supabase configuration not found") /\ UNCHANGED sqCalls
       ELSE /\ sqPc' = "await_rpc"
            /\ sqCalls' = <<[kind |-> "rpc", arg |-> Trim(sqQuery)]>>
            /\ UNCHANGED sqResult
    /\ UNCHANGED <<sqQuery, sqHasConfig, notSafe>>

\* supabase.rpc('execute_sql', ...) answers
SafeRpcReturn ==
    /\ sqPc = "await_rpc"
    /\ \E answer \in RemoteAnswers :
        IF answer = "ok"
        THEN SafeDone(TRUE, "") /\ UNCHANGED sqCalls
        ELSE IF GetQueryType(Trim(sqQuery)) = "select"
                /\ ExtractTableName(Trim(sqQuery)) # <<>>
        THEN /\ sqPc' = "await_select"
             /\ sqCalls' = Append(sqCalls, [kind |-> "select",
                                            arg |-> ExtractTableName(Trim(sqQuery))])
             /\ UNCHANGED sqResult
        ELSE SafeDone(FALSE, "Failed to execute query") /\ UNCHANGED sqCalls
    /\ UNCHANGED <<sqQuery, sqHasConfig, notSafe>>

\* supabase.from(tableName).select('*') answers
SafeSelectReturn ==
    /\ sqPc = "await_select"
    /\ \E answer \in RemoteAnswers :
        CASE answer = "ok" -> SafeDone(TRUE, "")
          [] answer = "error" -> SafeDone(FALSE, "Table operation failed")
          [] answer = "throw" -> SafeDone(FALSE, "fetch failed")
    /\ UNCHANGED <<sqQuery, sqHasConfig, sqCalls, notSafe>>

SafeIdle ==
    /\ sqQuery = <<>>
    /\ sqHasConfig = FALSE
    /\ sqPc = "idle"
    /\ sqCalls = <<>>
    /\ sqResult = <<>>

SafeInit ==
    /\ sqQuery \in SafeQueries
    /\ sqHasConfig \in BOOLEAN
    /\ sqPc = "idle"
    /\ sqCalls = <<>>
    /\ sqResult = <<>>

SafeNext ==
    \/ ExecuteSafeSQLQueryCall
    \/ SafeRpcReturn
    \/ SafeSelectReturn

----------------------------------------------------------------------------
(* Connection pool (ConnectionPool in service.ts)                          *)

\* getConnection calls looked at.
MaxGets == 6

\* private _maxConnections: number = 5
maxConnections == 5
\* private _connectionTimeout: number = 30000
connectionTimeout == 30000
\* setInterval(() => this._cleanup(), 60000)
cleanupInterval == 60000

\* Strings handed in as projectUrl and apiKey. projectUrlSchema accepts the
\* URLs that end in .supabase.co, apiKeySchema the strings of at least 20
\* characters drawn from letters, digits, _ and - ("short" is refused).
PoolUrls == {"https://a.supabase.co", "https://b.supabase.co", "https://c.supabase.co"}
PoolKeys == {"anon-key-0123456789abcdef", "service-key-0123456789ab"}
PoolConfigs ==
    [projectUrl : PoolUrls, apiKey : PoolKeys]
        \cup {[projectUrl |-> "https://a.supabase.co", apiKey |-> "short"]}

\* supabaseConfigSchema.parse(config) returns rather than throws
ValidConfig(config) ==
    /\ config.projectUrl \in {"https://a.supabase.co", "https://b.supabase.co",
                              "https://c.supabase.co"}
    /\ config.apiKey # "short"

\* const key = `${projectUrl}:${apiKey}`. An accepted apiKey holds no colon,
\* so the string determines the pair.
PoolKey(config) == <<config.projectUrl, config.apiKey>>

\* Room is made only once the pool holds more than _maxConnections entries.
MakeRoomWhenOver(pool) ==
    IF Len(pool) > maxConnections THEN Tail(pool) ELSE pool

\* if (this._pool.size >= this._maxConnections) delete the first key of the
\* Map, which iterates in insertion order
MakeRoom(pool) ==
    IF Len(pool) >= maxConnections THEN Tail(pool) ELSE pool

\* getConnection(config); the function holds no await and runs in one step
GetConnection ==
    /\ kGets < MaxGets
    /\ kGets' = kGets + 1
    /\ \E config \in PoolConfigs :
        IF ~ValidConfig(config)
        THEN /\ kLast' = <<[config |-> config, client |-> 0]>>
             /\ UNCHANGED <<kPool, kCreated>>
        ELSE IF \E i \in 1..Len(kPool) : kPool[i].key = PoolKey(config)
        THEN LET i == CHOOSE n \in 1..Len(kPool) : kPool[n].key = PoolKey(config)
             IN  /\ kPool' = [kPool EXCEPT ![i].idle = 0]
                 /\ kLast' = <<[config |-> config, client |-> kPool[i].client]>>
                 /\ UNCHANGED kCreated
        ELSE /\ kCreated' = kCreated + 1
             /\ kPool' = Append(MakeRoom(kPool),
                                [key |-> PoolKey(config), client |-> kCreated + 1,
                                 idle |-> 0])
             /\ kLast' = <<[config |-> config, client |-> kCreated + 1]>>
    /\ UNCHANGED <<kNow, notPool>>

\* Every entry has been idle for another connectionTimeout milliseconds.
Aged(pool) == [i \in 1..Len(pool) |-> [pool[i] EXCEPT !.idle = @ + connectionTimeout]]

\* Thirty seconds pass and no interval callback is due.
TimePasses ==
    /\ kNow + connectionTimeout # cleanupInterval
    /\ kNow' = kNow + connectionTimeout
    /\ kPool' = Aged(kPool)
    /\ UNCHANGED <<kCreated, kGets, kLast, notPool>>

\* Thirty seconds pass and the interval callback _cleanup() runs.
Cleanup ==
    /\ kNow + connectionTimeout = cleanupInterval
    /\ kNow' = 0
    /\ kPool' = SelectSeq(Aged(kPool), LAMBDA connection :
                              ~(connection.idle > connectionTimeout))
    /\ UNCHANGED <<kCreated, kGets, kLast, notPool>>

PoolInit ==
    /\ kPool = <<>>
    /\ kNow = 0
    /\ kCreated = 0
    /\ kGets = 0
    /\ kLast = <<>>

PoolNext ==
    \/ GetConnection
    \/ TimePasses
    \/ Cleanup

----------------------------------------------------------------------------
(* Retry helper (retryOperation) and checkDatabaseConnection (service.ts)  *)

\* const DEFAULT_RETRY_OPTIONS
DEFAULT_RETRY_OPTIONS == [maxAttempts |-> 3, initialDelay |-> 1000, maxDelay |-> 5000]

\* The options the helper is run with: the default, and the default with
\* fewer attempts.
RetryOptionsSet ==
    {[DEFAULT_RETRY_OPTIONS EXCEPT !.maxAttempts = n] :
        n \in 1..DEFAULT_RETRY_OPTIONS.maxAttempts}

\* The four checks one invocation of the operation goes through.
ConnectionChecks == <<"pg_catalog.pg_tables", "pg_stat_database",
                      "information_schema.tables", "version">>

\* Errors a call of the remote client can throw.
ThrownErrors == {"fetch failed", "network timeout"}

\* Math.min
Min(a, b) == IF a < b THEN a ELSE b

\* The loop goes round once more than it should.
LoopGoesOnOnceMore(attempt, options) == attempt <= options.maxAttempts

\* After a failed invocation the loop goes on to another one: no break
\* (attempt === options.maxAttempts) and the loop condition holds after
\* attempt++
LoopGoesOn(attempt, options) ==
    /\ attempt # options.maxAttempts
    /\ attempt + 1 <= options.maxAttempts

\* throw lastError || new Error('Operation failed after retries')
ThrownAtEnd(lastError) ==
    IF lastError = <<>> THEN "Operation failed after retries" ELSE lastError[1]

\* retryOperation returned the value: checkDatabaseConnection returns it.
RetryReturns(value) ==
    /\ tReturned' = Append(tReturned, value)
    /\ tRetry' = <<"returned", value>>
    /\ tResult' = IF value THEN "true" ELSE "false"
    /\ tPc' = "done"
    /\ UNCHANGED <<tCheck, tLastError, tThrown>>

\* checkDatabaseConnection(), up to the first await of the first invocation
CheckDatabaseConnectionCall ==
    /\ tPc = "idle"
    /\ IF ~tHasConfig
       THEN \* createSupabaseClient() throws and the outer catch returns false
            /\ tPc' = "done"
            /\ tResult' = "false"
            /\ UNCHANGED <<tAttempt, tCheck, tInvoked, tDelay>>
       ELSE /\ tPc' = "check"
            /\ tAttempt' = 1
            /\ tDelay' = tOptions.initialDelay
            /\ tInvoked' = tInvoked + 1
            /\ tCheck' = 1
            /\ UNCHANGED tResult
    /\ UNCHANGED <<tOptions, tHasConfig, tLastError, tThrown, tReturned, tSlept, tRetry,
                   notRetry>>

\* The awaited check of the current invocation answers.
CheckReturn ==
    /\ tPc = "check"
    /\ \/ \* no error: the operation returns true
          RetryReturns(TRUE)
       \/ \* an error object: the next check, or false after the last one
          IF tCheck < Len(ConnectionChecks)
          THEN /\ tCheck' = tCheck + 1
               /\ UNCHANGED <<tPc, tLastError, tThrown, tReturned, tRetry, tResult>>
          ELSE RetryReturns(FALSE)
       \/ \* the call throws: the operation rethrows, retryOperation catches
          \E error \in ThrownErrors :
            /\ tLastError' = <<error>>
            /\ tThrown' = Append(tThrown, error)
            /\ IF LoopGoesOn(tAttempt, tOptions)
               THEN /\ tPc' = "sleep"
                    /\ UNCHANGED <<tRetry, tResult>>
               ELSE \* retryOperation throws; the outer catch returns false
                    /\ tRetry' = <<"threw", ThrownAtEnd(tLastError')>>
                    /\ tResult' = "false"
                    /\ tPc' = "done"
            /\ UNCHANGED <<tCheck, tReturned>>
    /\ UNCHANGED <<tOptions, tHasConfig, tAttempt, tInvoked, tDelay, tSlept, notRetry>>

\* The setTimeout(resolve, delay) of the catch block fires: the delay is
\* doubled, attempt++ and the operation is invoked again.
DelayElapsed ==
    /\ tPc = "sleep"
    /\ tSlept' = Append(tSlept, tDelay)
    /\ tDelay' = Min(tDelay * 2, tOptions.maxDelay)
    /\ tAttempt' = tAttempt + 1
    /\ tInvoked' = tInvoked + 1
    /\ tCheck' = 1
    /\ tPc' = "check"
    /\ UNCHANGED <<tOptions, tHasConfig, tLastError, tThrown, tReturned, tRetry, tResult,
                   notRetry>>

RetryIdle ==
    /\ tOptions = DEFAULT_RETRY_OPTIONS
    /\ tHasConfig = FALSE
    /\ tPc = "idle"
    /\ tAttempt = 0
    /\ tCheck = 0
    /\ tInvoked = 0
    /\ tLastError = <<>>
    /\ tThrown = <<>>
    /\ tReturned = <<>>
    /\ tDelay = 0
    /\ tSlept = <<>>
    /\ tRetry = <<>>
    /\ tResult = "none"

RetryInit ==
    /\ tOptions \in RetryOptionsSet
    /\ tHasConfig \in BOOLEAN
    /\ tPc = "idle"
    /\ tAttempt = 0
    /\ tCheck = 0
    /\ tInvoked = 0
    /\ tLastError = <<>>
    /\ tThrown = <<>>
    /\ tReturned = <<>>
    /\ tDelay = 0
    /\ tSlept = <<>>
    /\ tRetry = <<>>
    /\ tResult = "none"

RetryNext ==
    \/ CheckDatabaseConnectionCall
    \/ CheckReturn
    \/ DelayElapsed

----------------------------------------------------------------------------
(* Specifications                                                          *)

vars == <<verifyVars, pollVars, flowVars, execVars, serverVars, laterVars>>

LastIdle == SafeIdle /\ PoolInit /\ RetryIdle

LaterIdle == ConnectIdle /\ SchemaIdle /\ ManagerInit /\ LastIdle

ServerIdle == SqlIdle /\ ProxyIdle /\ DbApiIdle /\ StoreInit /\ LaterIdle

FlowIdle ==
    /\ devMode = FALSE
    /\ fOrg = "none"
    /\ refMock = FALSE
    /\ fError = "none"
    /\ storedConfig = <<>>

ExecIdle ==
    /\ xVariant = "service"
    /\ xConfig = "none"
    /\ xOp = NoOp
    /\ xUseCache = FALSE
    /\ xPc = "idle"
    /\ xCalls = <<>>
    /\ xAnswers = <<>>
    /\ xHit = FALSE
    /\ xResult = NoResult
    /\ xCache = {}
    /\ xRuns = 0

InitVerify ==
    /\ VerifyInit
    /\ pVariant = "ui" /\ projectRefLen = 0 /\ PollIdle
    /\ fPc = "unit" /\ FlowIdle
    /\ ExecIdle
    /\ ServerIdle

SpecVerify == InitVerify /\ [][VerifyNext]_vars

InitPoll ==
    /\ PollInit
    /\ FlowIdle
    /\ VerifyIdle
    /\ ExecIdle
    /\ ServerIdle

SpecPoll == InitPoll /\ [][PollNext]_vars

InitCreate ==
    /\ FlowInit
    /\ VerifyIdle
    /\ ExecIdle
    /\ ServerIdle

SpecCreate == InitCreate /\ [][FlowNext]_vars

InitExec ==
    /\ ExecInit
    /\ VerifyIdle
    /\ pVariant = "ui" /\ projectRefLen = 0 /\ PollIdle
    /\ fPc = "unit" /\ FlowIdle
    /\ ServerIdle

SpecExec == InitExec /\ [][ExecNext]_vars

\* Everything on the browser side at rest.
ClientIdle ==
    /\ VerifyIdle
    /\ pVariant = "ui" /\ projectRefLen = 0 /\ PollIdle
    /\ fPc = "unit" /\ FlowIdle
    /\ ExecIdle
    /\ LaterIdle

InitSql ==
    /\ SqlInit
    /\ ClientIdle
    /\ ProxyIdle
    /\ DbApiIdle
    /\ StoreInit

SpecSql == InitSql /\ [][SqlNext]_vars

InitProxy ==
    /\ ProxyInit
    /\ ClientIdle
    /\ SqlIdle
    /\ DbApiIdle
    /\ StoreInit

SpecProxy == InitProxy /\ [][ProxyNext]_vars

InitDbApi ==
    /\ DbApiInit
    /\ ClientIdle
    /\ SqlIdle
    /\ ProxyIdle
    /\ StoreInit

SpecDbApi == InitDbApi /\ [][DbApiNext]_vars

InitStore ==
    /\ StoreInit
    /\ ClientIdle
    /\ SqlIdle
    /\ ProxyIdle
    /\ DbApiIdle

SpecStore == InitStore /\ [][StoreNext]_vars

\* Everything of the eight earlier components at rest.
OldIdle ==
    /\ VerifyIdle
    /\ pVariant = "ui" /\ projectRefLen = 0 /\ PollIdle
    /\ fPc = "unit" /\ FlowIdle
    /\ ExecIdle
    /\ SqlIdle /\ ProxyIdle /\ DbApiIdle /\ StoreInit

InitConnect ==
    /\ ConnectInit
    /\ OldIdle
    /\ SchemaIdle
    /\ ManagerInit
    /\ LastIdle

SpecConnect == InitConnect /\ [][ConnectNext]_vars

InitSchema ==
    /\ SchemaInit
    /\ OldIdle
    /\ ConnectIdle
    /\ ManagerInit
    /\ LastIdle

InitManager ==
    /\ ManagerInit
    /\ OldIdle
    /\ ConnectIdle
    /\ SchemaIdle
    /\ LastIdle

SpecManager == InitManager /\ [][ManagerNext]_vars

SpecSchema == InitSchema /\ [][SchemaNext]_vars

\* Everything modelled before the last three components at rest.
EarlierIdle == OldIdle /\ ConnectIdle /\ SchemaIdle /\ ManagerInit

InitSafe ==
    /\ SafeInit
    /\ EarlierIdle
    /\ PoolInit
    /\ RetryIdle

SpecSafe == InitSafe /\ [][SafeNext]_vars

InitPool ==
    /\ PoolInit
    /\ EarlierIdle
    /\ SafeIdle
    /\ RetryIdle

SpecPool == InitPool /\ [][PoolNext]_vars

InitRetry ==
    /\ RetryInit
    /\ EarlierIdle
    /\ SafeIdle
    /\ PoolInit

SpecRetry == InitRetry /\ [][RetryNext]_vars

InitProvision == InitPoll \/ InitCreate

\* The poll loop called on its own and inside the create-project flow.
SpecProvision == InitProvision /\ [][PollNext \/ FlowNext]_vars

----------------------------------------------------------------------------
(* Claims                                                                  *)

\* Every probe answered so far came back with the error code c.
UniformCode(c) ==
    /\ vProbes # <<>>
    /\ \A i \in 1..Len(vProbes) : vProbes[i].res = c

\* C1: when the probes return one of the codes PGRST202, 42P01, PGRST116 the
\* verifier returns true, and when they return any other error code it
\* returns false -- for every verifySupabaseConnection of the repository.
C1_ErrorCodeClassification ==
    vPc = "done" =>
        \A c \in ErrorCodes :
            UniformCode(c) =>
                vResult = (IF c \in {"PGRST202", "42P01", "PGRST116"} THEN "true" ELSE "false")

\* The same statement for the current verifier alone (supabase.ts 213-259).
C1_CurrentVariantClassification ==
    vVariant = "current" => C1_ErrorCodeClassification

\* C2: with the answers BUILDING, PROVISIONING, COMING_UP, ACTIVE_HEALTHY the
\* UI loop is still pending after 1, 2 and 3 answers, has resolved after the
\* 4th, has sent exactly 4 requests, and nothing is in flight or scheduled.
C2_ResolvesAfterFourPolls ==
    (pVariant = "ui" /\ pOnScript) =>
        /\ pResponses \in 1..3 => (pState = "pending" /\ polls <= 4)
        /\ pResponses = 4 =>
              (pState = "resolved" /\ polls = 4 /\ inflight = 0 /\ timers = 0)

C2_Witness ==
    pVariant = "ui" /\ pOnScript /\ pResponses = 4 /\ pState = "resolved"

AllNonTerminal == pSeen \subseteq {"nonterminal"}

\* C3: when every answer is a non-terminal status, the loop is pending before
\* the N-th answer and rejected with the timeout error at the N-th (N = 30 in
\* the UI loop, 180 in the management loop), at most N + 1 requests are sent,
\* and a rejection brought about by a failure status never is the timeout error.
C3_TimeoutAfterCeiling ==
    /\ (AllNonTerminal /\ pResponses = Ceiling(pVariant)) =>
          (pState = "rejected" /\ pReason = "timeout")
    /\ (AllNonTerminal /\ pResponses \in 1..(Ceiling(pVariant) - 1)) => pState = "pending"
    /\ polls <= Ceiling(pVariant) + 1
    /\ (pState = "rejected" /\ pLast \in FailureStatuses) => pReason # "timeout"

\* The same statement for the UI loop alone.
C3_UiLoopTimeout == pVariant = "ui" => C3_TimeoutAfterCeiling

\* C4: in the UI loop an answer with a failure status leaves the promise
\* rejected with the provisioning-failure error at that very answer, with no
\* request in flight and no timer pending, whatever the attempt counter.
C4_FailureStatusRejectsImmediately ==
    (pVariant = "ui" /\ pLast \in {"ERROR_PROVISIONING", "BUILDING_FAILED", "PROVISIONING_FAILED"}) =>
        /\ pState = "rejected"
        /\ pReason = "failed"
        /\ timers = 0
        /\ inflight = 0
        /\ polls = pResponses

C4_Witness ==
    /\ pVariant = "ui"
    /\ pLast = "ERROR_PROVISIONING"
    /\ attempts = 29
    /\ pState = "rejected"

\* C5: in the UI loop every HTTP failure of a poll adds one attempt; unless it
\* is the 400 'ref must be longer' answer, the promise stays pending and one
\* timer is set while the counter is below 30, and the promise is rejected
\* with the timeout error once it is 30; the 400 'ref must be longer' answer
\* always rejects and sets no timer.
C5_HttpFailureRetried ==
    [][(pVariant = "ui" /\ pResponses' = pResponses + 1
            /\ pLast' \in {"HTTP_NON_2XX", "HTTP_400_REF_TOO_SHORT", "NO_DATA", "THROW"}) =>
          /\ attempts' = attempts + 1
          /\ inflight' = 0
          /\ IF pLast' = "HTTP_400_REF_TOO_SHORT"
             THEN pState' = "rejected" /\ timers' = 0
             ELSE IF attempts' < 30
             THEN pState' = "pending" /\ timers' = 1
             ELSE pState' = "rejected" /\ pReason' = "timeout" /\ timers' = 0
      ]_vars

C5_Witness ==
    /\ pVariant = "ui"
    /\ pLast \in {"HTTP_NON_2XX", "NO_DATA", "THROW"}
    /\ attempts = 29
    /\ pState = "pending"
    /\ timers = 1

\* C6: requests in flight plus pending timers never exceed 1, and every
\* request sent is answered or the one in flight.
C6_AtMostOneOutstanding ==
    /\ inflight + timers <= 1
    /\ polls = pResponses + inflight

C6_Witness ==
    pResponses >= 2 /\ inflight = 1 /\ timers = 0

\* C7: a reference shorter than 20 characters (or missing) makes the UI
\* pollProjectStatus reject without any request, and makes the create-project
\* flow fail before the poll loop is called.
C7_ShortRefRejectedBeforePolling ==
    projectRefLen < 20 =>
        /\ (fPc = "unit" /\ pVariant = "ui" /\ pState # "notcalled") =>
              (pState = "rejected" /\ polls = 0 /\ inflight = 0 /\ timers = 0)
        /\ fPc \notin {"unit", "idle", "returned", "org", "create"} =>
              (fPc = "failed" /\ pState = "notcalled" /\ polls = 0 /\ storedConfig = <<>>)

C7_Witness ==
    /\ fPc = "failed"
    /\ fError = "invalid_ref"
    /\ projectRefLen \in 1..19
    /\ fOrg = "real"
    /\ pState = "notcalled"

\* C8: verifySupabaseConnection never throws, and when every probe fails with
\* a network error (an exception or an error without code) or an auth error,
\* or the client cannot be created, the result is false.
C8_FailuresGiveFalse ==
    /\ vResult # "threw"
    /\ (vPc = "done" /\ \A i \in 1..Len(vProbes) : vProbes[i].res \in {"throw", "", "PGRST301"})
          => vResult = "false"

\* The same statement for the current verifier alone (supabase.ts 213-259).
C8_CurrentVariantFailuresGiveFalse ==
    vVariant = "current" => C8_FailuresGiveFalse

\* Probes sent so far by the current verifier, the awaited one included.
IssuedProbes ==
    [i \in 1..Len(vProbes) |-> vProbes[i].probe]
        \o (IF vPc \in {"version", "sentinel", "api"} THEN <<vPc>> ELSE <<>>)

\* C9: the current verifier sends version, sentinel, api in this order and at
\* most these three; the sentinel probe only after the version probe gave no
\* success signal, the api probe only after the sentinel probe gave none
\* either; it returns true right after a success signal and false after three
\* probes without one.
C9_OrderedFallbackChain ==
    vVariant = "current" =>
        /\ Len(IssuedProbes) <= 3
        /\ \A i \in 1..Len(IssuedProbes) : IssuedProbes[i] = <<"version", "sentinel", "api">>[i]
        /\ Len(IssuedProbes) >= 2 => vProbes[1].res \notin {"ok", "PGRST202"}
        /\ Len(IssuedProbes) >= 3 => vProbes[2].res \notin {"ok", "PGRST116", "42P01"}
        /\ (Len(vProbes) = 1 /\ vProbes[1].res \in {"ok", "PGRST202"}) => vResult = "true"
        /\ (Len(vProbes) = 2 /\ vProbes[2].res \in {"ok", "PGRST116", "42P01"}) => vResult = "true"
        /\ (Len(vProbes) = 3 /\ vProbes[3].res # "42P01") => vResult = "false"

C9_Witness ==
    /\ vVariant = "current"
    /\ Len(vProbes) = 3
    /\ vProbes[3].res = "PGRST301"
    /\ vResult = "false"

\* A required field of the operation's type is absent.
LacksRequiredField(op) ==
    \/ op.type = "select" /\ ~op.table
    \/ op.type = "insert" /\ (~op.table \/ ~op.data)
    \/ op.type = "update" /\ (~op.table \/ ~op.data \/ op.filter = "absent")
    \/ op.type = "delete" /\ (~op.table \/ op.filter = "absent")
    \/ op.type = "execute" /\ ~op.query

\* C10: an operation lacking a required field of its type ends with
\* success = false and an error message, and no remote call is made for it.
C10_MissingFieldFailsFast ==
    (xOp # NoOp /\ LacksRequiredField(xOp)) =>
        /\ xCalls = <<>>
        /\ xPc = "done"
        /\ xResult.success = FALSE
        /\ xResult.error # ""

C10_Witness ==
    /\ xConfig = "valid"
    /\ xPc = "done"
    /\ xOp.type = "update" /\ xOp.table /\ xOp.data /\ xOp.filter = "absent"
    /\ xResult.error = "Table name, data, and filter are required for update operations"
    /\ xCalls = <<>>

\* C11: for an execute operation service.ts calls the execute_sql procedure
\* first and sends the REST request only after that call errored: the calls of
\* one invocation are rpc, or rpc then rest, never more; a REST request is
\* there only when the procedure call failed, and a successful procedure call
\* ends the invocation with success.
C11_TwoTierFallback ==
    (xVariant = "service" /\ xOp.type = "execute") =>
        /\ xCalls \in {<<>>, <<"rpc">>, <<"rpc", "rest">>}
        /\ Len(xCalls) = 2 => (Len(xAnswers) >= 1 /\ xAnswers[1] # "ok")
        /\ (Len(xAnswers) >= 1 /\ xAnswers[1] = "ok") =>
              /\ xCalls = <<"rpc">>
              /\ xPc = "done"
              /\ xResult.success

C11_Witness ==
    /\ xVariant = "service" /\ xOp.type = "execute"
    /\ xCalls = <<"rpc", "rest">>
    /\ xAnswers = <<"error", "ok">>
    /\ xPc = "done" /\ xResult.success

\* The invocation hit a failure: no usable stored config, an operation type
\* the switch does not know, or a last remote call that reported an error.
ExecFailure ==
    \/ xConfig = "none"
    \/ xVariant = "service" /\ xConfig = "invalid"
    \/ xOp.type \notin {"select", "insert", "update", "delete", "execute"}
    \/ xAnswers # <<>> /\ xAnswers[Len(xAnswers)] # "ok"

HoldsWord(str, word) ==
    \E j \in 1..Len(str) :
        /\ j + Len(word) - 1 <= Len(str)
        /\ \A k \in 1..Len(word) : Fold(str[j + k - 1]) = word[k]

XpCmdShell == <<"x", "p", "_", "c", "m", "d", "s", "h", "e", "l", "l">>

\* The query holds the words of one of the other three denied constructs.
OtherDenied(str) ==
    \/ HoldsWord(str, <<"l", "o", "a", "d", "_", "f", "i", "l", "e">>)
    \/ HoldsWord(str, <<"i", "n", "t", "o">>)
         /\ HoldsWord(str, <<"o", "u", "t", "f", "i", "l", "e">>)
    \/ HoldsWord(str, <<"e", "x", "e", "c", "u", "t", "e">>)
         /\ HoldsWord(str, <<"o", "w", "n", "e", "r">>)

\* C13: a query that holds xp_cmdshell in any letter case is rejected as
\* harmful; a query with text in it that holds none of the denied constructs
\* is returned (trimmed), whether or not it holds -- or semicolons.
C13_DenylistXpCmdShell ==
    qPc = "done" =>
        /\ HoldsWord(qQuery, XpCmdShell) => (qOut = "harmful" /\ qSanitized = <<>>)
        /\ (\E k \in 1..Len(qQuery) : ~IsSpace(qQuery[k])) /\ ~HoldsWord(qQuery, XpCmdShell)
              /\ ~OtherDenied(qQuery)
              => (qOut = "returned" /\ qSanitized = Trim(qQuery))

C13_CommentsAccepted ==
    /\ qPc = "done"
    /\ qQuery = <<"a", ";", "-", "-">>
    /\ qOut = "returned"

C13_Witness ==
    /\ qPc = "done"
    /\ qQuery = <<"-", "-", "X", "P", "_", "C", "m", "d", "S", "h", "e", "l", "l", ";">>
    /\ qOut = "harmful"

\* C14: once the upstream management API has answered, the endpoint returns
\* {data} holding the upstream body when the answer was 2xx, and otherwise
\* an {error} envelope with the status the upstream answered with.
C14_ProxyEnvelope ==
    (rPc = "done" /\ rUpStatus # 0) =>
        IF Ok2xx(rUpStatus)
        THEN rBody = "data"
        ELSE rBody = "error" /\ rStatus = rUpStatus

\* The part of C14 the endpoint keeps: an upstream error whose body is JSON
\* comes back as {error} with the upstream status.
C14_JsonErrorKeepsStatus ==
    (rPc = "done" /\ rUpStatus # 0 /\ ~Ok2xx(rUpStatus) /\ rUpBody # "not_json") =>
        (rBody = "error" /\ rStatus = rUpStatus)

\* C15: an inbound request causes at most one upstream request; a request
\* that is no POST is answered 405, a POST without a path 400, one without
\* the key header 401, each without any upstream request; every exception
\* (unparsable request body, failed fetch, unparsable upstream body) gives an
\* {error} response with status 500.
C15_ProxyNoRetry ==
    /\ rForwarded <= 1
    /\ rPc = "done" =>
          /\ rMethod # "POST" => (rStatus = 405 /\ rBody = "error" /\ rForwarded = 0)
          /\ (rMethod = "POST" /\ ~rJson) => (rStatus = 500 /\ rBody = "error" /\ rForwarded = 0)
          /\ (rMethod = "POST" /\ rJson /\ ~rPath) =>
                (rStatus = 400 /\ rBody = "error" /\ rForwarded = 0)
          /\ (rMethod = "POST" /\ rJson /\ rPath /\ ~rKey) =>
                (rStatus = 401 /\ rBody = "error" /\ rForwarded = 0)
          /\ (rMethod = "POST" /\ rJson /\ rPath /\ rKey) => rForwarded = 1
          /\ (rForwarded = 1 /\ (rUpStatus = 0 \/ rUpBody = "not_json")) =>
                (rStatus = 500 /\ rBody = "error")
          /\ rStatus \in {405, 400, 401} /\ rUpStatus = 0 => rForwarded = 0

C15_Witness ==
    /\ rPc = "done"
    /\ rMethod = "POST" /\ rJson /\ rPath /\ ~rKey
    /\ rStatus = 401
    /\ rForwarded = 0

\* C16: a POST handled while no connection is configured is answered 503,
\* and no request goes to the remote database while it is handled.
C16_NoConnectionGives503 ==
    (dPc = "done" /\ dMethod = "POST" /\ ~dConfig) =>
        (dStatus = 503 /\ dRemote = 0)

\* The part of C16 both variants keep: without a stored config nothing is
\* sent to the remote database.
C16_NoRemoteWithoutConfig ==
    (dRequests > 0 /\ ~dConfig) => dRemote = 0

\* C17: the operations on the ConnectionConfig (connect, create-project
\* save, disconnect, read) leave the stored management key as it was, and the
\* operations on the management key (save, remove) leave the stored
\* ConnectionConfig as it was.
C17_ConfigAndKeyIndependent ==
    [][/\ sOp' \in {"connect", "create", "disconnect", "get"} =>
            ls'[MANAGEMENT_KEY_STORAGE] = ls[MANAGEMENT_KEY_STORAGE]
       /\ sOp' \in {"save", "remove", "oauth"} =>
            ls'[SUPABASE_CONFIG_KEY] = ls[SUPABASE_CONFIG_KEY]]_vars

\* A key without a config, after a disconnect that found both.
C17_Witness ==
    /\ sOp = "disconnect"
    /\ sOps = 3
    /\ ls[MANAGEMENT_KEY_STORAGE] # <<>>
    /\ ls[SUPABASE_CONFIG_KEY] = <<>>

\* A config without a key, after a removal that found both.
C17_OnlyConfig ==
    /\ sOp = "remove"
    /\ sOps = 3
    /\ ls[MANAGEMENT_KEY_STORAGE] = <<>>
    /\ ls[SUPABASE_CONFIG_KEY] # <<>>

\* C18: the ConnectionConfig held in the store, if any, has a projectUrl
\* that ends in .supabase.co.
C18_StoredUrlIsHosted ==
    ls[SUPABASE_CONFIG_KEY] # <<>> =>
        EndsInHostedDomain(ParseConfig(Decrypt(ls[SUPABASE_CONFIG_KEY][1])).projectUrl)

\* The part of C18 that holds: what the create-project flow saves is hosted.
C18_CreatedUrlIsHosted ==
    (sOp = "create" /\ ls[SUPABASE_CONFIG_KEY] # <<>>) =>
        EndsInHostedDomain(ParseConfig(Decrypt(ls[SUPABASE_CONFIG_KEY][1])).projectUrl)

\* C19: getSupabaseConfig returns the argument of the latest
\* setSupabaseConfig call, and null when there was none since the last clear.
C19_LastWriteWins ==
    sOp = "get" => sGot = sLastSet

\* The part of C19 that holds: getSupabaseConfig returns the argument of the
\* latest setSupabaseConfig call that returned, null after a clear, and the
\* slot holds that argument's encoding.
C19_LastStoredWins ==
    /\ sOp = "get" => sGot = sLastStored
    /\ ls[SUPABASE_CONFIG_KEY] =
          (IF sLastStored = <<>> THEN <<>> ELSE <<Encrypt(Stringify(sLastStored[1]))>>)

\* The stages of handleCreateProject a behaviour has passed, read from the
\* flow's own state: the create-project request was issued, pollProjectStatus
\* was called, the schema bootstrap (the wait before setupInitialStructure)
\* was entered, the ConnectionConfig was written.
CreateIssued == fOrg # "none"
PollingStarted == pState # "notcalled"
BootstrapStarted == fPc \in {"wait", "setup", "done"} \/ fError = "save"
ConfigWritten == storedConfig # <<>>

\* The stages in the claimed order, each entered only after the one before
\* succeeded.
StepsOrdered ==
    /\ CreateIssued => fOrg = "real"
    /\ PollingStarted => (CreateIssued /\ ~refMock /\ RefValid(projectRefLen))
    /\ BootstrapStarted => (PollingStarted /\ pState = "resolved")
    /\ ConfigWritten => (BootstrapStarted /\ fPc = "done")

\* C20: the create-project flow issues the create request only after an
\* organization id was obtained, starts polling only after a project
\* reference was returned, starts the bootstrap only after polling resolved
\* and writes the ConnectionConfig only after that; when the organization
\* lookup, the project creation or the polling fails, no ConnectionConfig is
\* written.
C20_OrderedStoreOnlyOnSuccess ==
    /\ StepsOrdered
    /\ ConfigWritten => (fOrg = "real" /\ ~refMock /\ pState = "resolved")

\* The part of C20 that holds: outside a development build the steps are
\* ordered and a failed lookup, creation or poll leaves the slot empty.
C20_ProductionOrderedStoreOnlyOnSuccess ==
    ~devMode => C20_OrderedStoreOnlyOnSuccess

\* A production run that went through every stage and wrote the config.
C20_ProductionStored ==
    ~devMode /\ ConfigWritten /\ fPc = "done"

\* A development run whose organization lookup and create request both
\* failed, which never polled, and which wrote the mock project's config.
C20_MockStored ==
    devMode /\ ConfigWritten /\ fOrg = "mock" /\ refMock /\ pState = "notcalled"

\* The poll loop with what the event loop guarantees: a pending timer fires
\* and a request in flight is answered or throws.
SpecPollFair == InitPoll /\ [][PollNext]_vars /\ WF_vars(PollNext)

PollSettledOrRunning ==
    /\ polls <= maxAttempts
    /\ pState = "pending" =>
          (attempts < maxAttempts /\ polls = attempts + inflight /\ inflight + timers = 1)
    /\ pState \in {"resolved", "rejected"} => (inflight = 0 /\ timers = 0)
    /\ attempts >= maxAttempts => (pState = "rejected" /\ pReason = "timeout")

\* C24: in the UI loop every answer that does not settle the promise adds one
\* to the same attempt counter, so at most 30 status requests are sent, the
\* promise is settled once the counter is 30, and every call settles when
\* each request returns or throws.
C24_SharedCounterBoundsPolls ==
    /\ [](pVariant = "ui" => PollSettledOrRunning)
    /\ (pVariant = "ui") => <>(pState \in {"resolved", "rejected"})

\* The 30th request answered after a mix of all four kinds of outcome.
C24_Witness ==
    /\ pVariant = "ui"
    /\ polls = maxAttempts
    /\ pState = "rejected"
    /\ pReason = "timeout"
    /\ pLast = "THROW"
    /\ pSeen = {"nonterminal", "httpfail"}

\* C21: when a bootstrap step comes back with an error or throws,
\* setupInitialStructure still resolves, and the connect or create-project
\* flow that awaits it goes on to setSupabaseConfig and stores the config.
C21_BootstrapBestEffort ==
    cStepFailed =>
        /\ cSetup # "threw"
        /\ cPc \in {"done", "failed"} => cSaveCalled
        /\ cPc = "done" => cSlot = cConfig

\* The part of C21 that holds: setupInitialStructure of setup.ts.
C21_CurrentBootstrapBestEffort ==
    cVariant = "current" => C21_BootstrapBestEffort

\* The part of C21 that holds for both variants: handleConnect goes on.
C21_ConnectContinues ==
    (cCaller = "connect" /\ cStepFailed /\ cPc \in {"done", "failed"}) => cSaveCalled

\* Every step of setup.ts failed and the create-project flow stored the config.
C21_CurrentStored ==
    /\ cVariant = "current"
    /\ cCaller = "create"
    /\ cStepFailed
    /\ cPc = "done"
    /\ cSlot = <<CreatedConfig>>

\* The create-project flow stopped by the throwing bootstrap.
C21_ThrowingStopsCreate ==
    /\ cVariant = "throwing"
    /\ cCaller = "create"
    /\ cSetup = "threw"
    /\ cPc = "failed"
    /\ ~cSaveCalled

\* C23: handleConnect writes the slot only with the config object for which
\* its verifySupabaseConnection call answered true; with an empty field, a
\* false answer or while the calls are awaited the slot is what it was when
\* the handler started.
C23_StoredOnlyIfVerified ==
    /\ [](cCaller = "connect" =>
            /\ cPc \in ({"returned", "verify", "wait5", "after_setup"} \cup BootstrapSteps) =>
                  cSlot = cSlotBefore
            /\ cSlot # cSlotBefore => (cSlot = cConfig /\ cConfig[1] \in cVerified))
    /\ [][(cCaller' = "connect" /\ cSlot' # cSlot) =>
            (cPc = "after_setup" /\ cSlot' = cConfig /\ cConfig[1] \in cVerified)]_vars

\* The fields were edited while the calls were awaited; the config verified,
\* not the one in the fields, replaced the earlier one.
C23_Witness ==
    /\ cCaller = "connect"
    /\ cPc = "done"
    /\ cSlotBefore = <<EarlierConfig>>
    /\ cSlot = cConfig
    /\ cConfig[1] \in cVerified
    /\ cConfig[1].projectUrl # cUrl

\* A false answer left the earlier config in place.
C23_RejectedKeepsSlot ==
    /\ cCaller = "connect"
    /\ cPc = "returned"
    /\ cConfig # <<>>
    /\ cVerified = {}
    /\ cSlot = <<EarlierConfig>>

\* A definition whose strings are single expressions and whose nullable
\* columns are not primary-key columns.
PlainDefinition ==
    /\ \A i \in 1..Len(gTable.columns) :
          /\ Len(gTable.columns[i].default) <= 1
          /\ gTable.columns[i].nullable # "false" =>
                (/\ ~gTable.columns[i].primaryKey
                 /\ (gTable.constraints # <<>> => gTable.columns[i].name # "id"))

\* C22: the columns read back from the CREATE TABLE clause of the generated
\* SQL are exactly the (name, type, nullability) triples of the definition.
C22_GenerateParseRoundTrip ==
    gPc = "parsed" => gParsed = DefinedColumns(gTable)

\* The part of C22 that holds: the round trip of plain definitions.
C22_PlainRoundTrip ==
    (gPc = "parsed" /\ PlainDefinition) => gParsed = DefinedColumns(gTable)

\* Two columns of different nullability read back from the zod variant's SQL.
C22_PlainParsed ==
    /\ gPc = "parsed"
    /\ gVariant = "zod"
    /\ PlainDefinition
    /\ Cardinality(gParsed) = 2
    /\ \E c \in gParsed : c.nullable
    /\ \E c \in gParsed : ~c.nullable

\* C25: getClient() throws when no config is stored and otherwise returns a
\* client built from the stored config; the cached client is reused exactly
\* when the stored config string is the one it was built from, and a new one
\* is created otherwise.
C25_ClientMatchesStoredConfig ==
    /\ [](/\ mClient # <<>> => mLastConfig = <<mClient[1].config>>
          /\ mOp = "getClient" =>
                IF mStored = <<>> THEN mGot = <<>>
                ELSE mGot # <<>> /\ mGot[1].config = mStored[1] /\ mGot = mClient)
    /\ [][(mOp' = "getClient" /\ mOps' = mOps + 1 /\ mStored # <<>>) =>
            IF mClient # <<>> /\ mLastConfig = mStored
            THEN mGot' = mClient /\ mCreated' = mCreated
            ELSE mGot'[1].id = mCreated + 1 /\ mCreated' = mCreated + 1]_vars

\* The config was replaced between two getClient() calls: a second client.
C25_Witness ==
    /\ mOp = "getClient"
    /\ mOps = 4
    /\ mCreated = 2
    /\ mGot # <<>>
    /\ mGot[1].config = "B"
    /\ mStored = <<"B">>

\* getClient() throws after a clear although a client is cached.
C25_ThrowsAfterClear ==
    /\ mOp = "getClient"
    /\ mStored = <<>>
    /\ mClient # <<>>
    /\ mGot = <<>>

\* C26: a getDatabaseContext call that returns connected = true returns the
\* projectUrl of the config stored when it was called; after a clear, or a
\* replacement by another project, it does not answer with the old project.
C26_ContextMatchesStoredConfig ==
    (mPc = "done" /\ mResult[1].connected) => mAtCall = <<mResult[1].projectUrl>>

\* The part of C26 that holds: a call that did not answer from the stored
\* context answers connected = true with the project of the config it read.
C26_FreshContextMatchesStoredConfig ==
    (mPc = "done" /\ mResult[1].connected /\ mConfig # <<>>) =>
        mConfig = <<mResult[1].projectUrl>>

\* connected = true for project A right after clearSupabaseConfig().
C26_StaleAfterClear ==
    /\ mPc = "done"
    /\ mOp = "getDatabaseContext"
    /\ mStored = <<>>
    /\ mAtCall = <<>>
    /\ mResult[1].connected

\* The invocation sent an update or a delete to the remote client.
SentModification == \E i \in 1..Len(xCalls) : xCalls[i] \in {"update", "delete"}

\* C27: every update or delete that reaches the remote client carries a
\* filter with at least one column condition.
C27_ModificationsAreFiltered ==
    SentModification => xOp.filter = "cond"

\* The part of C27 that holds: no update or delete is sent without a filter
\* object.
C27_ModificationsHaveFilterObject ==
    SentModification => xOp.filter # "absent"

\* A delete with filter {} was sent and answered without error.
C27_UnfilteredDeleteSent ==
    /\ xOp.type = "delete"
    /\ xOp.filter = "empty"
    /\ xCalls = <<"delete">>
    /\ xPc = "done"
    /\ xResult.success

\* The validator refuses the query: nothing but white space in it, or one of
\* the four denied constructs in any letter case.
RefusedWith(query) ==
    IF \A k \in 1..Len(query) : IsSpace(query[k])
    THEN "Query cannot be empty"
    ELSE IF HoldsWord(query, XpCmdShell) \/ OtherDenied(query)
    THEN "Query contains potentially harmful patterns"
    ELSE ""

\* C28: for a query the validator refuses, executeSafeSQLQuery issues neither
\* the execute_sql RPC nor the fallback table select, and it ends with
\* success=false and the validator's error message.
C28_RefusedQueryMakesNoRemoteCall ==
    RefusedWith(sqQuery) # "" =>
        /\ sqCalls = <<>>
        /\ sqPc \in {"idle", "done"}
        /\ sqPc = "done" =>
              sqResult = <<[success |-> FALSE, error |-> RefusedWith(sqQuery)]>>

\* A select that holds xp_cmdshell was refused while a config was stored.
C28_Witness ==
    /\ sqPc = "done"
    /\ sqHasConfig
    /\ sqQuery = <<"S", "E", "L", "E", "C", "T", " ", "*", " ">>
                   \o <<"f", "r", "o", "m", " ", "t">>
                   \o <<"X", "p", "_", "c", "m", "d", "s", "h", "e", "l", "l">>
    /\ sqCalls = <<>>
    /\ sqResult = <<[success |-> FALSE,
                     error |-> "Query contains potentially harmful patterns"]>>

\* An accepted select whose RPC failed went on to the table select.
C28_AcceptedFallsBack ==
    /\ sqPc = "done"
    /\ Len(sqCalls) = 2
    /\ sqCalls[2] = [kind |-> "select", arg |-> <<"u">>]
    /\ sqResult[1].success

\* The keys held by a pool.
KeysOf(pool) == {pool[i].key : i \in 1..Len(pool)}

\* C29: the pool never holds more than 5 connections; a getConnection for a
\* config whose key is in the pool returns the pooled client and creates
\* none; a getConnection for a new valid config at a full pool removes
\* exactly the entry inserted earliest and adds the new one.
C29_PoolHoldsAtMostFive ==
    /\ [](Len(kPool) <= 5)
    /\ [][kGets' # kGets =>
            LET config == kLast'[1].config
            IN  /\ PoolKey(config) \in KeysOf(kPool) =>
                      /\ kCreated' = kCreated
                      /\ \E i \in 1..Len(kPool) :
                            /\ kPool[i].key = PoolKey(config)
                            /\ kPool[i].client = kLast'[1].client
                      /\ [i \in 1..Len(kPool') |-> kPool'[i].key]
                            = [i \in 1..Len(kPool) |-> kPool[i].key]
                /\ (ValidConfig(config) /\ PoolKey(config) \notin KeysOf(kPool)
                        /\ Len(kPool) = 5) =>
                      /\ Len(kPool') = 5
                      /\ SubSeq(kPool', 1, 4) = Tail(kPool)
                      /\ kPool'[5].key = PoolKey(config)
                      /\ kPool'[5].client = kCreated'
                      /\ kCreated' = kCreated + 1]_vars

\* Six clients were created and the first one was evicted for the sixth.
C29_Witness ==
    /\ kGets = 6
    /\ kCreated = 6
    /\ Len(kPool) = 5
    /\ kPool[1].client = 2
    /\ kLast[1].client = 6

\* A call was answered with the client pooled by an earlier call.
C29_Reused ==
    /\ kGets = 3
    /\ kCreated = 2
    /\ kLast[1].client = 1

\* The interval callback removed an entry that had not been used for a minute.
C29_CleanedUp ==
    /\ kNow = 0
    /\ kCreated = 2
    /\ Len(kPool) = 1
    /\ kPool[1].client = 2

\* C30: retryOperation invokes the operation at most maxAttempts times; the
\* first invocation that returns ends it with that value and no further
\* invocation; after maxAttempts failed invocations it throws what the last
\* one threw; checkDatabaseConnection never throws and gives false when
\* every invocation threw.
C30_RetryAtMostMaxAttempts ==
    /\ tInvoked <= tOptions.maxAttempts
    /\ Len(tThrown) + Len(tReturned) <= tInvoked
    /\ Len(tReturned) <= 1
    /\ tReturned # <<>> =>
          /\ tPc = "done"
          /\ tRetry = <<"returned", tReturned[1]>>
          /\ tInvoked = Len(tThrown) + 1
    /\ Len(tThrown) = tOptions.maxAttempts =>
          /\ tPc = "done"
          /\ tRetry = <<"threw", tThrown[Len(tThrown)]>>
          /\ tResult = "false"
    /\ (tRetry # <<>> /\ tRetry[1] = "threw") => Len(tThrown) = tOptions.maxAttempts
    /\ tResult # "threw"
    /\ tPc = "done" => tResult \in {"true", "false"}

\* With the default options three invocations threw, the last one another
\* error than the first two, and the check gave false.
C30_Witness ==
    /\ tOptions = DEFAULT_RETRY_OPTIONS
    /\ tPc = "done"
    /\ tInvoked = 3
    /\ tThrown = <<"fetch failed", "fetch failed", "network timeout">>
    /\ tSlept = <<1000, 2000>>
    /\ tRetry = <<"threw", "network timeout">>
    /\ tResult = "false"

\* The second invocation returned true and there was no third.
C30_SecondAttemptSucceeds ==
    /\ tOptions = DEFAULT_RETRY_OPTIONS
    /\ tPc = "done"
    /\ tInvoked = 2
    /\ Len(tThrown) = 1
    /\ tRetry = <<"returned", TRUE>>
    /\ tResult = "true"

====
